---- MODULE Spec2Model ----
(***************************************************************************)
(* Memory and session consistency of liminal-salt: the long-term memory    *)
(* (LTM) file and its three operations (Summarizer.update_long_term_memory,*)
(* Summarizer.modify_memory_with_command, views.wipe_memory), the session  *)
(* file and ChatCore, and a chat turn as views.send_message runs it.       *)
(*                                                                         *)
(* Text is a sequence of one-character strings, so that str.strip,         *)
(* str.replace, len and startswith are computed as Python computes them.   *)
(***************************************************************************)
EXTENDS Integers, Sequences, FiniteSets, TLC

VARIABLES
    ltm_file,      \* the LTM file: NoFile or File(content)
    mem,           \* the last memory operation: what it read, got and returned
    session_file,  \* the current session's file on disk
    current_session, \* Django session key 'current_session': is a session selected
    chat,          \* the ChatCore object and request data of the turn in flight
    pc,            \* where the turn is: "idle", "attempt", "respond", "title", "done"
    turns,         \* turns started so far
    rt,            \* save / load / save round trip of one session
    pay,           \* one payload construction: config, stored messages, payload
    ttl,           \* one call of Summarizer.generate_title: arguments and outcome
    ctx,           \* one call of load_context: the files it reads, the prompt
    pw,            \* personas: directories, session files, DEFAULT_PERSONA, last request
    cf,            \* context files: the files on disk, the last request and what it touched
    sv,            \* a session file being saved: its bytes on disk, the writer, the last read
    st,            \* persisted JSON documents and the last operation that read them
    ss             \* session creation: the wall clock, the sessions directory, the last creation

vars == <<ltm_file, mem, session_file, current_session, chat, pc, turns, rt, pay,
          ttl, ctx, pw, cf, sv, st, ss>>
extVars == <<ttl, ctx, pw, cf, sv, st, ss>>
memVars == <<ltm_file, mem>>
turnVars == <<session_file, current_session, chat, pc, turns>>

-----------------------------------------------------------------------------
(* Text *)

Rep(c, n) == [i \in 1..n |-> c]

Whitespace == {" ", "\n", "\t"}

RECURSIVE LStrip(_)
LStrip(s) == IF s # <<>> /\ Head(s) \in Whitespace THEN LStrip(Tail(s)) ELSE s

RECURSIVE RStrip(_)
RStrip(s) ==
    IF s # <<>> /\ s[Len(s)] \in Whitespace
    THEN RStrip(SubSeq(s, 1, Len(s) - 1))
    ELSE s

\* str.strip()
Strip(s) == RStrip(LStrip(s))

MatchAt(s, i, pat) ==
    /\ i + Len(pat) - 1 <= Len(s)
    /\ \A k \in 1..Len(pat) : s[i + k - 1] = pat[k]

\* pat in s
Contains(s, pat) == \E i \in 1..(Len(s) - Len(pat) + 1) : MatchAt(s, i, pat)

\* s.startswith(pat)
StartsWith(s, pat) == MatchAt(s, 1, pat)

\* s.replace(pat, ''): left to right, non-overlapping, no rescan
RECURSIVE Remove(_, _)
Remove(s, pat) ==
    IF s = <<>> THEN <<>>
    ELSE IF MatchAt(s, 1, pat) THEN Remove(SubSeq(s, Len(pat) + 1, Len(s)), pat)
    ELSE <<Head(s)>> \o Remove(Tail(s), pat)

TokS == <<"<", "s", ">">>
TokEndS == <<"<", "/", "s", ">">>

\* content.strip() then .replace('<s>', '').replace('</s>', '').strip()
StripTokens(raw) == Strip(Remove(Remove(Strip(raw), TokS), TokEndS))

-----------------------------------------------------------------------------
(* Files *)

NoFile == [exists |-> FALSE]
File(c) == [exists |-> TRUE, content |-> c]

\* existing_ltm = "" ; if os.path.exists(ltm_file): existing_ltm = f.read()
ReadLtm(f) == IF f.exists THEN f.content ELSE <<>>

-----------------------------------------------------------------------------
(* Provider responses to a memory rewrite request *)

NoResponse == [kind |-> "none"]

MemRewrites ==
    { <<>>,
      Rep("r", 5),
      <<" ">> \o TokS \o Rep("r", 5) \o TokEndS \o <<"\n">>,
      Rep("r", 9),
      Rep("r", 10),
      Rep("r", 60) }

\* "error": requests.post or raise_for_status raises; "malformed": the JSON has
\* no choices[0].message.content string; "text": a completion
MemResponses ==
    {[kind |-> "error"], [kind |-> "malformed"]}
        \cup {[kind |-> "text", content |-> c] : c \in MemRewrites}

UserMsg(c) == [role |-> "user", content |-> c]
AssistantMsg(c) == [role |-> "assistant", content |-> c]

\* the message lists handed to update_long_term_memory
MemMessageLists ==
    { <<>>,
      <<UserMsg(<<"h", "i">>)>>,
      <<UserMsg(<<"h", "i">>), AssistantMsg(<<"o", "k">>)>>,
      <<AssistantMsg(<<"o", "k">>)>>,
      <<UserMsg(<<"h", "i">>), AssistantMsg(<<"o", "k">>), UserMsg(<<"y", "o">>)>> }

MinRewriteLen == 10
SubstantialLen == 50
ModifyMinLen == 10

-----------------------------------------------------------------------------
(* Summarizer.update_long_term_memory *)

UserLabel == <<"U", "s", "e", "r", ":", " ">>

RECURSIVE ConversationTextAllRoles(_)
ConversationTextAllRoles(messages) ==
    IF messages = <<>> THEN <<>>
    ELSE UserLabel \o Head(messages).content \o <<"\n">>
             \o ConversationTextAllRoles(Tail(messages))

\* for msg in messages: if msg['role'] == 'user':
\*     conversation_text += f"User: {msg['content']}\n"
RECURSIVE ConversationText(_)
ConversationText(messages) ==
    IF messages = <<>> THEN <<>>
    ELSE (IF Head(messages).role = "user"
          THEN UserLabel \o Head(messages).content \o <<"\n">>
          ELSE <<>>)
             \o ConversationText(Tail(messages))

SafetyCheckLax(updated_ltm, existing_ltm) ==
    Len(updated_ltm) < MinRewriteLen /\ Len(existing_ltm) > SubstantialLen * 4

\* if len(updated_ltm) < 10 and len(existing_ltm) > 50: return
SafetyCheck(updated_ltm, existing_ltm) ==
    Len(updated_ltm) < MinRewriteLen /\ Len(existing_ltm) > SubstantialLen

UpdateTryUncaught(file, resp) ==
    IF resp.kind # "text"
    THEN [file |-> file, raised |-> TRUE]
    ELSE LET updated_ltm == StripTokens(resp.content)
         IN  IF SafetyCheck(updated_ltm, ReadLtm(file))
             THEN [file |-> file, raised |-> FALSE]
             ELSE [file |-> File(updated_ltm), raised |-> FALSE]

\* the try block: post, parse, clean, safety check, write; except: print
UpdateTry(file, resp) ==
    IF resp.kind # "text"
    THEN [file |-> file, raised |-> FALSE]
    ELSE LET updated_ltm == StripTokens(resp.content)
         IN  IF SafetyCheck(updated_ltm, ReadLtm(file))
             THEN [file |-> file, raised |-> FALSE]
             ELSE [file |-> File(updated_ltm), raised |-> FALSE]

update_long_term_memory ==
    \E messages \in MemMessageLists, resp \in MemResponses :
        LET called == messages # <<>>
            out == IF called THEN UpdateTry(ltm_file, resp)
                   ELSE [file |-> ltm_file, raised |-> FALSE]
        IN  /\ ltm_file' = out.file
            /\ mem' = [op |-> "update", prev |-> mem.op, pre |-> ltm_file, messages |-> messages,
                       called |-> called,
                       conversation |-> IF called THEN ConversationText(messages) ELSE <<>>,
                       resp |-> IF called THEN resp ELSE NoResponse,
                       ret |-> <<>>, raised |-> out.raised]
            /\ UNCHANGED <<turnVars, rt, pay, extVars>>

MemoryUpdated == <<"M", "e", "m", "o", "r", "y", " ", "U", "p", "d", "a", "t", "e", "d">>
NoMessagesFound == <<"N", "o", " ", "m", "e", "s", "s", "a", "g", "e", "s">>
UpdateFailed == <<"f", "a", "i", "l", "e", "d">>

\* the try block of views.update_memory: the status it reports, the second
\* and third being error_msg ("No messages found in any session",
\* "Memory update failed: ...")
UpdateMemoryStatus(all_messages, out) ==
    IF all_messages = <<>> THEN NoMessagesFound
    ELSE IF out.raised THEN UpdateFailed
    ELSE MemoryUpdated

\* views.update_memory on the messages aggregate_all_sessions_messages found
update_memory_request ==
    \E all_messages \in MemMessageLists, resp \in MemResponses :
        LET called == all_messages # <<>>
            out == IF called THEN UpdateTry(ltm_file, resp)
                   ELSE [file |-> ltm_file, raised |-> FALSE]
        IN  /\ ltm_file' = out.file
            /\ mem' = [op |-> "update_memory", prev |-> mem.op, pre |-> ltm_file,
                       messages |-> all_messages, called |-> called,
                       conversation |-> IF called THEN ConversationText(all_messages)
                                        ELSE <<>>,
                       resp |-> IF called THEN resp ELSE NoResponse,
                       ret |-> <<UpdateMemoryStatus(all_messages, out)>>,
                       raised |-> FALSE]
            /\ UNCHANGED <<turnVars, rt, pay, extVars>>

-----------------------------------------------------------------------------
(* Summarizer.modify_memory_with_command *)

ModifyTryNoFloor(file, resp) ==
    IF resp.kind # "text"
    THEN [file |-> file, ret |-> <<>>]
    ELSE [file |-> File(StripTokens(resp.content)), ret |-> <<StripTokens(resp.content)>>]

\* the try block; ret is <<>> for None and <<text>> for a returned string
ModifyTry(file, resp) ==
    IF resp.kind # "text"
    THEN [file |-> file, ret |-> <<>>]
    ELSE LET updated_ltm == StripTokens(resp.content)
         IN  IF Len(updated_ltm) < ModifyMinLen
             THEN [file |-> file, ret |-> <<>>]
             ELSE [file |-> File(updated_ltm), ret |-> <<updated_ltm>>]

modify_memory_with_command ==
    \E resp \in MemResponses :
        LET existing_ltm == ReadLtm(ltm_file)
            called == existing_ltm # <<>>
            out == IF called THEN ModifyTry(ltm_file, resp)
                   ELSE [file |-> ltm_file, ret |-> <<>>]
        IN  /\ ltm_file' = out.file
            /\ mem' = [op |-> "modify", prev |-> mem.op, pre |-> ltm_file, messages |-> <<>>,
                       called |-> called, conversation |-> <<>>,
                       resp |-> IF called THEN resp ELSE NoResponse,
                       ret |-> out.ret, raised |-> FALSE]
            /\ UNCHANGED <<turnVars, rt, pay, extVars>>

-----------------------------------------------------------------------------
(* views.wipe_memory *)

WipeUnguarded(file) == [file |-> NoFile, raised |-> ~file.exists]

\* if os.path.exists(ltm_file): os.remove(ltm_file)
Wipe(file) ==
    IF file.exists
    THEN [file |-> NoFile, raised |-> FALSE]
    ELSE [file |-> file, raised |-> FALSE]

wipe_memory ==
    LET out == Wipe(ltm_file)
    IN  /\ ltm_file' = out.file
        /\ mem' = [op |-> "wipe", prev |-> mem.op, pre |-> ltm_file, messages |-> <<>>,
                   called |-> FALSE, conversation |-> <<>>, resp |-> NoResponse,
                   ret |-> <<>>, raised |-> out.raised]
        /\ UNCHANGED <<turnVars, rt, pay, extVars>>

-----------------------------------------------------------------------------
(* Session documents.  A session file is missing, unparsable, a bare JSON   *)
(* list (legacy) or a JSON object; an object is a record whose DOMAIN is    *)
(* the set of keys present.                                                 *)

Missing == [kind |-> "missing"]
Corrupt == [kind |-> "corrupt"]
ListFile(items) == [kind |-> "list", items |-> items]
DictFile(doc) == [kind |-> "dict", doc |-> doc]

\* data.get(key, default)
Get(doc, key, default) == IF key \in DOMAIN doc THEN doc[key] ELSE default

\* data[key] = value
Put(doc, key, value) == (key :> value) @@ doc

NewChat == <<"N", "e", "w", " ", "C", "h", "a", "t">>
ErrPrefix == <<"E", "R", "R", "O", "R", ":">>

Msg(role, content, timestamp) ==
    [role |-> role, content |-> content, timestamp |-> timestamp]

LoadHistoryKeepsCtorPersona(file, ctor_persona) ==
    IF file.kind = "dict"
    THEN [title |-> Get(file.doc, "title", NewChat),
          persona |-> ctor_persona,
          messages |-> Get(file.doc, "messages", <<>>)]
    ELSE IF file.kind = "list"
    THEN [title |-> NewChat, persona |-> ctor_persona, messages |-> file.items]
    ELSE [title |-> NewChat, persona |-> ctor_persona, messages |-> <<>>]

\* ChatCore.__init__ with ChatCore._load_history: self.title = "New Chat",
\* self.persona = persona, then the file's values where it is a dict
LoadHistory(file, ctor_persona) ==
    IF file.kind = "dict"
    THEN [title |-> Get(file.doc, "title", NewChat),
          persona |-> Get(file.doc, "persona", ctor_persona),
          messages |-> Get(file.doc, "messages", <<>>)]
    ELSE IF file.kind = "list"
    THEN [title |-> NewChat, persona |-> ctor_persona, messages |-> file.items]
    ELSE [title |-> NewChat, persona |-> ctor_persona, messages |-> <<>>]

\* ChatCore._save_history: the file is overwritten with these three keys
SaveHistoryRecent(core) ==
    DictFile([title |-> core.title, persona |-> core.persona,
              messages |-> IF Len(core.messages) <= 2 THEN core.messages
                           ELSE SubSeq(core.messages, Len(core.messages) - 1,
                                       Len(core.messages))])

SaveHistory(core) ==
    DictFile([title |-> core.title, persona |-> core.persona,
              messages |-> core.messages])

-----------------------------------------------------------------------------
(* Title synthesis: Summarizer.generate_title, utils.title_has_artifacts *)

TitleMinLen == 3
TitleMaxLen == 50
FallbackLen == 50

RECURSIVE RemoveEach(_, _)
RemoveEach(s, pats) ==
    IF pats = <<>> THEN s ELSE RemoveEach(Remove(s, Head(pats)), Tail(pats))

RECURSIVE RStripChars(_, _)
RStripChars(s, chars) ==
    IF s # <<>> /\ s[Len(s)] \in chars
    THEN RStripChars(SubSeq(s, 1, Len(s) - 1), chars)
    ELSE s

\* ' '.join(s.split()) of a stripped string: each whitespace run becomes one space
RECURSIVE CollapseRuns(_)
CollapseRuns(s) ==
    IF s = <<>> THEN <<>>
    ELSE IF Head(s) \in Whitespace THEN <<" ">> \o CollapseRuns(LStrip(s))
    ELSE <<Head(s)>> \o CollapseRuns(Tail(s))

TokInst == <<"[", "I", "N", "S", "T", "]">>
TokEndInst == <<"[", "/", "I", "N", "S", "T", "]">>
TokSys == <<"<", "<", "S", "Y", "S", ">", ">">>
TokEndSys == <<"<", "<", "/", "S", "Y", "S", ">", ">">>
TokHashes == <<"#", "#", "#">>
TokPrompt == <<"P", "r", "o", "m", "p", "t">>

\* Summarizer._clean_title
clean_title(title) ==
    LET noArtifacts == RemoveEach(title, <<TokS, TokEndS, TokInst, TokEndInst,
                                           TokSys, TokEndSys, TokHashes, TokPrompt>>)
        noQuotes == Strip(Remove(Remove(noArtifacts, <<"\"">>), <<"'">>))
        noPunct == RStripChars(noQuotes, {".", ":", ";", ",", "!", "?"})
    IN  CollapseRuns(Strip(noPunct))

BadPatterns ==
    { <<"[">>, <<"]">>, <<"<">>, <<">">>, <<"#">>, <<"\n">>,
      TokPrompt, <<"I", "N", "S", "T">>, <<"S", "Y", "S">> }

has_artifacts_brackets_only(title) ==
    Contains(title, <<"[">>) \/ Contains(title, <<"]">>)

\* Summarizer._has_artifacts
has_artifacts(title) == \E p \in BadPatterns : Contains(title, p)

\* user_prompt[:50] + ("..." if len(user_prompt) > 50 else "")
TitleFallback(user_prompt) ==
    IF Len(user_prompt) > FallbackLen
    THEN SubSeq(user_prompt, 1, FallbackLen) \o <<".", ".", ".">>
    ELSE user_prompt

\* the try block of Summarizer.generate_title with its `except Exception`;
\* resp is the title model's answer
TitleTry(user_prompt, resp) ==
    IF resp.kind # "text" THEN [ret |-> TitleFallback(user_prompt), raised |-> FALSE]
    ELSE LET title == clean_title(Strip(resp.content))
         IN  IF \/ title = <<>>
                \/ Len(title) < TitleMinLen
                \/ Len(title) > TitleMaxLen
                \/ has_artifacts(title)
             THEN [ret |-> TitleFallback(user_prompt), raised |-> FALSE]
             ELSE [ret |-> title, raised |-> FALSE]

\* Summarizer.generate_title as a call: what it returns, whether it raises
GenerateTitleCall(user_prompt, assistant_response, resp) ==
    IF user_prompt = <<>> THEN [ret |-> NewChat, raised |-> FALSE]
    ELSE TitleTry(user_prompt, resp)

\* Summarizer.generate_title; resp is the title model's answer
generate_title(user_prompt, assistant_response, resp) ==
    GenerateTitleCall(user_prompt, assistant_response, resp).ret

\* utils.title_has_artifacts
title_has_artifacts(title) ==
    IF title = <<>> \/ title = NewChat THEN FALSE
    ELSE \E p \in BadPatterns \cup {TokHashes} : Contains(title, p)

-----------------------------------------------------------------------------
(* A chat turn: views.send_message around ChatCore.send_message.  The turn  *)
(* is cut at its network calls: SendStart runs up to the first provider     *)
(* call, Attempt is one pass of the retry loop, Respond is the code after   *)
(* the loop, TitleStep is the rest of the view.                             *)

MaxTurns == 2

max_retries == 2

RetryDelay == 2

DefaultPersona == "assistant"
PersonaNames == {"assistant", "sage"}

Hi == <<"h", "i">>
Bracketed == <<"[", "a", "]">>
Ok == <<"o", "k">>
Cats == <<"C", "a", "t", "s">>

\* request.POST['message'] after strip(), never empty
UserInputs == {Hi, Bracketed}

\* what the chat provider does on one call: the call raises, it times out
\* (requests raises Timeout after timeout=120), the JSON has no choices, or
\* it carries a completion
ChatResponses ==
    { [kind |-> "error"],
      [kind |-> "timeout"],
      [kind |-> "nochoices"],
      [kind |-> "text", content |-> TokS \o Ok \o TokEndS \o <<" ">>],
      [kind |-> "text", content |-> <<" ">> \o TokS \o <<" ">> \o TokEndS] }

\* what the title model does
TitleResponses ==
    { [kind |-> "error"],
      [kind |-> "text", content |-> <<"\"">> \o Cats \o <<".", "\"">>],
      [kind |-> "text", content |-> NewChat],
      [kind |-> "text", content |-> <<"[", "b", "]", " ", "c">>] }

\* the reason texts are abbreviated to one character: "x" str(e) of the
\* exception, "n" "No response content from API.", "e" "The model returned
\* an empty response."
ErrException == <<"x">>
ErrNoChoices == <<"n">>
ErrEmpty == <<"e">>

ErrorMessageBare(last_error) == last_error

\* f"ERROR: {last_error}" + f" (tried {max_retries} times)"
ErrorMessage(last_error) ==
    ErrPrefix \o <<" ">> \o last_error
        \o (IF max_retries > 1 THEN <<" ", "(", "t", "r", "i", "e", "d", ")">> ELSE <<>>)

IdleChat ==
    [title |-> NewChat, persona |-> DefaultPersona, messages |-> <<>>,
     user_input |-> <<>>, skip_user_save |-> FALSE, attempt |-> 0,
     assistant_message |-> <<>>, last_error |-> <<>>, calls |-> <<>>,
     response |-> <<>>, title_at_start |-> NewChat,
     title_resp |-> NoResponse, generated |-> <<>>, in_flight |-> <<>>]

\* assistant_message.replace('<s>', '').replace('</s>', '').strip()
CleanCompletion(raw) == Strip(Remove(Remove(raw, TokS), TokEndS))

RetryDelayAlways(attempt) == RetryDelay

\* if attempt > 0: time.sleep(2)
RetryDelayBefore(attempt) == IF attempt > 0 THEN RetryDelay ELSE 0

\* session_persona of views.send_message: the file's persona, else the default
SessionPersona(file) ==
    IF file.kind = "dict" /\ "persona" \in DOMAIN file.doc /\ file.doc.persona # ""
    THEN file.doc.persona
    ELSE DefaultPersona

AppendUserMessageLate(messages, user_input, skip_user_save, timestamp) == messages

AppendUserMessageAlways(messages, user_input, skip_user_save, timestamp) ==
    Append(messages, Msg("user", user_input, timestamp))

\* if not skip_user_save: self.messages.append({"role": "user", ...})
AppendUserMessage(messages, user_input, skip_user_save, timestamp) ==
    IF skip_user_save THEN messages
    ELSE Append(messages, Msg("user", user_input, timestamp))

SendStart ==
    /\ pc \in {"idle", "done"}
    /\ turns < MaxTurns
    /\ \E user_message \in UserInputs, is_new_chat \in BOOLEAN,
          skip_user_save \in BOOLEAN, selected_persona \in PersonaNames :
        LET create == is_new_chat \/ ~current_session
            file == IF create
                    THEN DictFile([title |-> NewChat, persona |-> selected_persona,
                                   messages |-> <<>>])
                    ELSE session_file
            core == LoadHistory(file, SessionPersona(file))
            messages == AppendUserMessage(core.messages, user_message, skip_user_save,
                                          turns + 1)
        IN  /\ session_file' = file
            /\ current_session' = TRUE
            /\ chat' = [IdleChat EXCEPT !.title = core.title,
                                        !.persona = core.persona,
                                        !.messages = messages,
                                        !.user_input = user_message,
                                        !.skip_user_save = skip_user_save,
                                        !.title_at_start = core.title]
    /\ pc' = "attempt"
    /\ turns' = turns + 1
    /\ UNCHANGED <<memVars, rt, pay, extVars>>

LoopEndsOneLate(attempt, success) == success \/ attempt + 1 >= max_retries + 1

\* `for attempt in range(max_retries)` with its `break` on success: TRUE when
\* the pass numbered attempt is the last one
LoopEnds(attempt, success) == success \/ attempt + 1 >= max_retries

\* one pass of `for attempt in range(max_retries)`
Attempt ==
    /\ pc = "attempt"
    /\ \E resp \in ChatResponses :
        LET cleaned == IF resp.kind = "text" THEN CleanCompletion(resp.content) ELSE <<>>
            success == resp.kind = "text" /\ cleaned # <<>>
            last_error == IF resp.kind \in {"error", "timeout"} THEN ErrException
                          ELSE IF resp.kind = "nochoices" THEN ErrNoChoices
                          ELSE IF success THEN chat.last_error
                          ELSE ErrEmpty
        IN  /\ chat' = [chat EXCEPT
                   !.calls = Append(@, [resp |-> resp,
                                        delay |-> RetryDelayBefore(chat.attempt)]),
                   !.assistant_message = IF resp.kind = "text" THEN cleaned ELSE @,
                   !.last_error = last_error,
                   !.attempt = IF success THEN @ ELSE @ + 1]
            /\ pc' = IF LoopEnds(chat.attempt, success)
                     THEN "respond" ELSE "attempt"
    /\ UNCHANGED <<memVars, session_file, current_session, turns, rt, pay, extVars>>

\* ChatCore.send_message after the loop
Respond ==
    /\ pc = "respond"
    /\ IF chat.assistant_message = <<>>
       THEN /\ chat' = [chat EXCEPT !.response = ErrorMessage(chat.last_error)]
            /\ UNCHANGED session_file
       ELSE LET core == [chat EXCEPT
                    !.messages = Append(@, Msg("assistant", chat.assistant_message, turns)),
                    !.response = chat.assistant_message]
            IN  /\ chat' = core
                /\ session_file' = SaveHistory(core)
    /\ pc' = "title"
    /\ UNCHANGED <<memVars, current_session, turns, rt, pay, extVars>>

\* the "Clear draft after successful send" block of views.send_message
ClearDraft(file) ==
    IF file.kind = "dict" /\ "draft" \in DOMAIN file.doc
    THEN DictFile(Put(file.doc, "draft", <<>>))
    ELSE file

RECURSIVE FirstUserMsg(_)
FirstUserMsg(messages) ==
    IF messages = <<>> THEN <<>>
    ELSE IF Head(messages).role = "user" THEN Head(messages).content
    ELSE FirstUserMsg(Tail(messages))

NeedsTitleIgnoresError(core) ==
    /\ core.title = NewChat \/ title_has_artifacts(core.title)
    /\ FirstUserMsg(core.messages) # <<>>

\* the two branches of "Generate or fix title" have the same body
NeedsTitle(core) ==
    \/ /\ core.title = NewChat
       /\ ~StartsWith(core.response, ErrPrefix)
       /\ FirstUserMsg(core.messages) # <<>>
    \/ /\ title_has_artifacts(core.title)
       /\ ~StartsWith(core.response, ErrPrefix)
       /\ FirstUserMsg(core.messages) # <<>>

\* views.send_message after chat_core.send_message returned
TitleStep ==
    /\ pc = "title"
    /\ \E tresp \in TitleResponses :
        LET cleared == ClearDraft(session_file)
        IN  IF NeedsTitle(chat)
            THEN LET new_title == generate_title(FirstUserMsg(chat.messages),
                                                 chat.response, tresp)
                     core == [chat EXCEPT !.title = new_title,
                                          !.title_resp = tresp,
                                          !.generated = <<new_title>>]
                 IN  /\ chat' = core
                     /\ session_file' = SaveHistory(core)
            ELSE /\ chat' = chat
                 /\ session_file' = cleared
    /\ pc' = "done"
    /\ UNCHANGED <<memVars, current_session, turns, rt, pay, extVars>>

-----------------------------------------------------------------------------
(* Session metadata requests: views.toggle_pin_chat, rename_chat and        *)
(* save_draft.  Each loads the session file, sets one key and writes the    *)
(* document back; json.load of an unparsable file and the key assignment on *)
(* a legacy list raise inside the try block, before the file is opened for  *)
(* writing.                                                                 *)

RenameMaxLen == 50

\* request.POST.get('new_title', '').strip()[:50]
RenameTitle(raw) ==
    IF Len(Strip(raw)) > RenameMaxLen THEN SubSeq(Strip(raw), 1, RenameMaxLen)
    ELSE Strip(raw)

RenameInputs == {<<>>, <<" ">>, <<" ">> \o Cats \o <<" ">>}
DraftInputs == {<<"n">>}

\* the operations on a session are taken one after another: a metadata
\* request is served before a turn or after it has returned
BetweenTurns == pc \in {"idle", "done"}

\* the try block shared by the three views
SetKey(file, key, value) ==
    IF file.kind = "dict" THEN DictFile(Put(file.doc, key, value)) ELSE file

toggle_pin_chat ==
    /\ BetweenTurns /\ session_file # Missing
    /\ session_file' =
           IF session_file.kind = "dict"
           THEN SetKey(session_file, "pinned", ~Get(session_file.doc, "pinned", FALSE))
           ELSE session_file
    /\ UNCHANGED <<memVars, current_session, chat, pc, turns, rt, pay, extVars>>

rename_chat ==
    /\ BetweenTurns /\ session_file # Missing
    /\ \E raw \in RenameInputs :
        session_file' = IF RenameTitle(raw) = <<>> THEN session_file
                        ELSE SetKey(session_file, "title", RenameTitle(raw))
    /\ UNCHANGED <<memVars, current_session, chat, pc, turns, rt, pay, extVars>>

save_draft ==
    /\ BetweenTurns /\ session_file # Missing
    /\ \E draft \in DraftInputs : session_file' = SetKey(session_file, "draft", draft)
    /\ UNCHANGED <<memVars, current_session, chat, pc, turns, rt, pay, extVars>>

\* The same three views served by another worker while a turn on the session
\* is between its load and its save; chat.in_flight keeps the keys written.
MaxInFlight == 1

WriteInFlight(key, value) ==
    /\ pc \in {"attempt", "respond"}
    /\ session_file.kind = "dict"
    /\ Len(chat.in_flight) < MaxInFlight
    /\ session_file' = SetKey(session_file, key, value)
    /\ chat' = [chat EXCEPT !.in_flight = Append(@, [key |-> key, value |-> value])]
    /\ UNCHANGED <<memVars, current_session, pc, turns, rt, pay, extVars>>

toggle_pin_chat_in_flight ==
    session_file.kind = "dict"
        /\ WriteInFlight("pinned", ~Get(session_file.doc, "pinned", FALSE))

rename_chat_in_flight ==
    \E raw \in RenameInputs :
        RenameTitle(raw) # <<>> /\ WriteInFlight("title", RenameTitle(raw))

save_draft_in_flight ==
    \E draft \in DraftInputs : WriteInFlight("draft", draft)

-----------------------------------------------------------------------------
(* Session persistence round trip: ChatCore._save_history, a new ChatCore   *)
(* on the saved file (ChatCore._load_history), ChatCore._save_history.      *)

Malformed == TokInst \o <<" ">> \o Cats

U0(c) == Msg("user", c, 0)
A0(c) == Msg("assistant", c, 0)

RtSaveFirst ==
    /\ rt.stage = "new"
    /\ rt' = [rt EXCEPT !.stage = "saved",
                        !.file = SaveHistory(rt.core),
                        !.first = SaveHistory(rt.core)]
    /\ UNCHANGED <<memVars, turnVars, pay, extVars>>

RtLoad ==
    /\ rt.stage = "saved"
    /\ \E ctor_persona \in PersonaNames :
        rt' = [rt EXCEPT !.stage = "loaded",
                         !.core = LoadHistory(rt.file, ctor_persona)]
    /\ UNCHANGED <<memVars, turnVars, pay, extVars>>

RtSaveAgain ==
    /\ rt.stage = "loaded"
    /\ rt' = [rt EXCEPT !.stage = "resaved", !.file = SaveHistory(rt.core)]
    /\ UNCHANGED <<memVars, turnVars, pay, extVars>>

-----------------------------------------------------------------------------
(* The provider payload: views.save_max_history writes MAX_HISTORY, the     *)
(* turn reads it and ChatCore._get_payload_messages cuts the window.  The   *)
(* views pass the limit as max_history; the constructor of chat_core.py     *)
(* names the same parameter context_history_limit.                          *)

MaxStored == 22

MinHistory == 10
MaxHistory == 500
DefaultMaxHistory == 50

\* "*** CURRENT TIME: ... ***" and the instruction, abbreviated
TimeContext == <<"*", "t", "*", "\n">>

SystemPrompts == {<<>>, <<"p">>}

\* request.POST['max_history']: an integer, or text int() rejects
RawLimits ==
    {[ok |-> FALSE]} \cup {[ok |-> TRUE, n |-> k] : k \in {0, 10, 11, 600}}

Min(a, b) == IF a < b THEN a ELSE b
Max(a, b) == IF a > b THEN a ELSE b

\* max(10, min(500, int(max_history))), 50 on ValueError
ClampHistory(raw) ==
    IF raw.ok THEN Max(MinHistory, Min(MaxHistory, raw.n)) ELSE DefaultMaxHistory

\* seq[-w:]
SliceLast(seq, w) ==
    IF w = 0 THEN seq
    ELSE IF w > 0 THEN SubSeq(seq, Max(Len(seq) - w, 0) + 1, Len(seq))
    ELSE SubSeq(seq, Min(-w, Len(seq)) + 1, Len(seq))

WindowOffByOne(messages, context_history_limit) ==
    SliceLast(messages, context_history_limit * 2 + 1)

\* window_size = self.context_history_limit * 2; self.messages[-window_size:]
Window(messages, context_history_limit) ==
    SliceLast(messages, context_history_limit * 2)

\* ChatCore._get_payload_messages
get_payload_messages(system_prompt, context_history_limit, messages) ==
    LET recent_messages == Window(messages, context_history_limit)
    IN  (IF system_prompt # <<>>
         THEN <<[role |-> "system", content |-> TimeContext \o system_prompt]>>
         ELSE <<>>)
        \o [i \in 1..Len(recent_messages) |->
               [role |-> recent_messages[i].role,
                content |-> recent_messages[i].content]]

\* n stored messages, user and assistant in turn, each with its own content
NumberedMessages(n) ==
    [i \in 1..n |-> Msg(IF i % 2 = 1 THEN "user" ELSE "assistant", Rep("m", i), i)]

save_max_history ==
    /\ pay.stage = "config"
    /\ \E raw \in RawLimits : pay' = [pay EXCEPT !.max_history = ClampHistory(raw)]
    /\ UNCHANGED <<memVars, turnVars, rt, extVars>>

BuildPayload ==
    /\ pay.stage = "config"
    /\ pay' = [pay EXCEPT
           !.stage = "built",
           !.payload = get_payload_messages(pay.system_prompt, pay.max_history,
                                            pay.messages)]
    /\ UNCHANGED <<memVars, turnVars, rt, extVars>>

-----------------------------------------------------------------------------
(* One call of Summarizer.generate_title, for every prompt and every answer *)
(* of the title model.                                                      *)

\* the first user message handed over by the views; <<>> when there is none
TitlePrompts == {<<>>, Hi, Bracketed, Rep("p", 50), Rep("p", 51)}

\* the completed turn's response: empty, a completion, an error string
TitleAssistantResponses == {<<>>, Ok, ErrPrefix \o <<" ", "x">>}

\* data['choices'][0]['message']['content'] of the title model
TitleTexts ==
    { <<"\"">> \o Cats \o <<".", "\"">>,
      <<"a", "b">>,
      <<"a", "b", "c">>,
      Rep("t", 50),
      Rep("t", 51),
      <<" ", "\n">>,
      <<"[", "b", "]", " ", "c">>,
      <<"a", "<", "b">>,
      <<"a", "#", "b">>,
      <<"a", "\n", " ", "b", "!">>,
      <<"S", "Y", "S", "a">>,
      TokS \o Cats \o TokEndS,
      TokInst \o <<" ">> \o Cats,
      <<"[", "I", "N">> \o TokInst \o <<"S", "T", "]", " ", "a", "b">> }

TitleAnswers ==
    {[kind |-> "error"], [kind |-> "malformed"]}
        \cup {[kind |-> "text", content |-> c] : c \in TitleTexts}

TtlIdle ==
    [stage |-> "off", user_prompt |-> <<>>, assistant_response |-> <<>>,
     resp |-> NoResponse, ret |-> <<>>, raised |-> FALSE]

generate_title_call ==
    /\ ttl.stage = "args"
    /\ LET out == GenerateTitleCall(ttl.user_prompt, ttl.assistant_response, ttl.resp)
       IN  ttl' = [ttl EXCEPT !.stage = "returned", !.ret = out.ret,
                              !.raised = out.raised]
    /\ UNCHANGED <<memVars, turnVars, rt, pay, ctx, pw, cf, sv, st, ss>>

-----------------------------------------------------------------------------
(* Context assembly: context_manager.load_context with                      *)
(* user_context.load_enabled_context.  The prompt is a sequence of lines,   *)
(* a line a sequence of characters or of longer fixed pieces of text.       *)

\* ord(c) for the characters of the file names used
Code(c) ==
    CASE c = "." -> 46 [] c = "B" -> 66 [] c = "a" -> 97 [] c = "b" -> 98
      [] c = "c" -> 99 [] c = "d" -> 100 [] c = "e" -> 101 [] c = "g" -> 103
      [] c = "i" -> 105 [] c = "m" -> 109 [] c = "n" -> 110 [] c = "s" -> 115
      [] c = "t" -> 116 [] c = "x" -> 120 [] c = "y" -> 121

\* s < t for Python strings
RECURSIVE LexLess(_, _)
LexLess(s, t) ==
    IF t = <<>> THEN FALSE
    ELSE IF s = <<>> THEN TRUE
    ELSE IF Code(Head(s)) # Code(Head(t)) THEN Code(Head(s)) < Code(Head(t))
    ELSE LexLess(Tail(s), Tail(t))

\* s.endswith(pat)
EndsWith(s, pat) == Len(pat) <= Len(s) /\ MatchAt(s, Len(s) - Len(pat) + 1, pat)

ExtMd == <<".", "m", "d">>
ExtTxt == <<".", "t", "x", "t">>

RECURSIVE SortedNamesReversed(_)
SortedNamesReversed(names) ==
    IF names = {} THEN <<>>
    ELSE LET last == CHOOSE x \in names : \A y \in names \ {x} : LexLess(y, x)
         IN  <<last>> \o SortedNamesReversed(names \ {last})

\* sorted(os.listdir(dir))
RECURSIVE SortedNames(_)
SortedNames(names) ==
    IF names = {} THEN <<>>
    ELSE LET first == CHOOSE x \in names : \A y \in names \ {x} : LexLess(x, y)
         IN  <<first>> \o SortedNames(names \ {first})

\* the text of a file as lines; every file of a name has the same text here
FileLines(name) ==
    IF Head(name) = "b" THEN <<<<>>>> ELSE <<<<"t", "e", "x", "t">>, name>>

PersonaBanner(filename) == <<"--- SYSTEM INSTRUCTION: ">> \o filename \o <<" ---">>
WarningBanner == <<"--- WARNING: Personality not found ---">>
ContextBanner == <<"--- USER CONTEXT FILES ---">>
ContextFileBanner(filename) == <<"--- ">> \o filename \o <<" ---">>
LtmBanner == <<"--- USER PROFILE (BACKGROUND KNOWLEDGE) ---">>

\* the lines of one loop over a sorted listing
RECURSIVE PersonaBlocks(_)
PersonaBlocks(listing) ==
    IF listing = <<>> THEN <<>>
    ELSE (IF EndsWith(Head(listing), ExtMd)
          THEN <<PersonaBanner(Head(listing))>> \o FileLines(Head(listing)) \o <<<<>>>>
          ELSE <<>>)
         \o PersonaBlocks(Tail(listing))

\* user_context.list_files: sorted listing, .md and .txt only, enabled unless
\* the config says otherwise
list_files(dir, config) ==
    LET listing == SortedNames(dir)
        kept == SelectSeq(listing, LAMBDA n : EndsWith(n, ExtMd) \/ EndsWith(n, ExtTxt))
    IN  [i \in 1..Len(kept) |->
            [name |-> kept[i], enabled |-> Get(config, kept[i], TRUE)]]

RECURSIVE ContextBlocks(_)
ContextBlocks(files) ==
    IF files = <<>> THEN <<>>
    ELSE <<ContextFileBanner(Head(files).name)>> \o FileLines(Head(files).name)
             \o <<<<>>>> \o ContextBlocks(Tail(files))

\* user_context.load_enabled_context: <<>> stands for ""
load_enabled_context(dir, config) ==
    LET enabled_files == SelectSeq(list_files(dir, config), LAMBDA f : f.enabled)
    IN  IF enabled_files = <<>> THEN <<>>
        ELSE <<ContextBanner, <<"The following files were provided by the user">>, <<>>>>
                 \o ContextBlocks(enabled_files)

\* str.strip() of the whole prompt: empty lines at both ends go
RECURSIVE StripLines(_)
StripLines(lines) ==
    IF lines # <<>> /\ Head(lines) = <<>> THEN StripLines(Tail(lines))
    ELSE IF lines # <<>> /\ lines[Len(lines)] = <<>>
    THEN StripLines(SubSeq(lines, 1, Len(lines) - 1))
    ELSE lines

\* context_manager.load_context
load_context(personality, dir, config, ltm) ==
    LET user_context == load_enabled_context(dir, config)
    IN  StripLines(
            (IF personality.exists THEN PersonaBlocks(SortedNames(personality.files))
             ELSE <<WarningBanner, <<"Expected directory">>, <<>>>>)
            \o (IF user_context # <<>> THEN user_context \o <<<<>>>> ELSE <<>>)
            \o (IF ltm.exists
                THEN <<LtmBanner, <<"The following information describes the USER">>, <<>>>>
                         \o FileLines(<<"m">>) \o <<<<>>>>
                ELSE <<>>))

PersonaFileNames ==
    { <<"a">> \o ExtMd, <<"b">> \o ExtMd, <<"B">> \o ExtMd, <<"a", "b">> \o ExtMd,
      <<"a">> \o ExtTxt }

ContextFileNames == { <<"c">> \o ExtMd, <<"d">> \o ExtTxt }

\* user_context/config.json "files": name -> enabled, for some of the files
ContextConfigs(dir) ==
    UNION { [sub -> BOOLEAN] : sub \in SUBSET dir }

CtxIdle ==
    [stage |-> "off", personality |-> [exists |-> FALSE, files |-> {}],
     dir |-> {}, config |-> <<>>, ltm |-> NoFile, prompt |-> <<>>]

load_context_call ==
    /\ ctx.stage = "files"
    /\ ctx' = [ctx EXCEPT !.stage = "built",
                          !.prompt = load_context(ctx.personality, ctx.dir,
                                                  ctx.config, ctx.ltm)]
    /\ UNCHANGED <<memVars, turnVars, rt, pay, ttl, pw, cf, sv, st, ss>>

-----------------------------------------------------------------------------
(* Personas: views.create_persona, views.save_persona_file (save, rename),  *)
(* views.delete_persona.  The personas directory maps a directory name to   *)
(* the text of its .md file; sessions are the files of the sessions         *)
(* directory; default is config.json's DEFAULT_PERSONA, <<>> when absent.   *)

MaxPersonaOps == 2

Assistant == <<"a", "s", "s", "i", "s", "t", "a", "n", "t">>
Sage == <<"s", "a", "g", "e">>
Yeti == <<"y", "e", "t", "i">>

\* request.POST values for a persona name
PersonaInputs ==
    { <<>>, Assistant, Sage, Yeti, <<" ">> \o Yeti, Sage \o <<"/">>, <<".">>,
      <<"a", "-", "b">> }

PersonaTexts == {<<"o", "l", "d">>, <<"n", "e", "w">>}

\* characters c with c.isalnum(), among those used
Alnum == {"a", "b", "e", "g", "i", "n", "s", "t", "y"}

ValidNameLax(name) == TRUE

\* all(c.isalnum() or c == '_' for c in name)
ValidName(name) == \A i \in 1..Len(name) : name[i] \in Alnum \cup {"_"}

\* what os.path.join(personas_dir, persona) designates: the personas
\* directory itself for ".", else the entry named without trailing slashes
PersonasRoot == <<"/">>
Resolve(persona) ==
    LET entry == RStripChars(persona, {"/"})
    IN  IF entry = <<".">> \/ entry = <<>> THEN PersonasRoot ELSE entry

\* os.path.exists(os.path.join(personas_dir, persona))
PathExists(w, persona) ==
    Resolve(persona) = PersonasRoot \/ Resolve(persona) \in DOMAIN w.dirs

\* context_manager.get_available_personalities: sorted names of the
\* directories holding an .md file
get_available_personalities(dirs) == SortedNames(DOMAIN dirs)

\* a function without the key k
Without(f, k) == [x \in DOMAIN f \ {k} |-> f[x]]

update_sessions_persona_all(sessions, old_name, new_name) ==
    [i \in DOMAIN sessions |->
        IF sessions[i].kind = "dict" /\ "persona" \in DOMAIN sessions[i].doc
        THEN DictFile(Put(sessions[i].doc, "persona", new_name))
        ELSE sessions[i]]

\* views._update_sessions_persona
update_sessions_persona(sessions, old_name, new_name) ==
    [i \in DOMAIN sessions |->
        IF /\ sessions[i].kind = "dict"
           /\ "persona" \in DOMAIN sessions[i].doc
           /\ sessions[i].doc.persona = old_name
        THEN DictFile(Put(sessions[i].doc, "persona", new_name))
        ELSE sessions[i]]

\* utils.get_sessions_with_titles: the persona a session is listed under
ListedPersona(file) ==
    IF file.kind = "dict" THEN Get(file.doc, "persona", Assistant) ELSE Assistant

Answer(w, status, reason, renamed) ==
    [world |-> w, status |-> status, reason |-> reason, renamed |-> renamed]

\* views.create_persona
CreatePersona(w, raw_name, content) ==
    LET name == Strip(raw_name)
    IN  IF name = <<>> THEN Answer(w, 400, "Personality name required", FALSE)
        ELSE IF ~ValidName(name) THEN Answer(w, 400, "Invalid persona name", FALSE)
        ELSE IF PathExists(w, name) THEN Answer(w, 400, "already exists", FALSE)
        ELSE Answer([w EXCEPT !.dirs = (name :> content) @@ w.dirs], 200,
                    "Persona created", FALSE)

\* the "Write content to file" block: the directory's .md file is overwritten
WriteContent(w, persona_path, content) ==
    IF persona_path \in DOMAIN w.dirs
    THEN [w EXCEPT !.dirs = (persona_path :> content) @@ w.dirs]
    ELSE w

\* views.save_persona_file
SavePersonaFile(w, raw_persona, raw_new_name, content) ==
    LET persona == Strip(raw_persona)
        new_name == Strip(raw_new_name)
        is_rename == new_name # <<>> /\ new_name # persona
        old_path == Resolve(persona)
    IN  IF persona = <<>> THEN Answer(w, 400, "Persona name required", FALSE)
        ELSE IF ~is_rename
        THEN Answer(WriteContent(w, old_path, content), 200, "Persona saved", FALSE)
        ELSE IF ~ValidName(new_name) THEN Answer(w, 400, "Invalid persona name", FALSE)
        ELSE IF PathExists(w, new_name) THEN Answer(w, 400, "already exists", FALSE)
        ELSE IF ~PathExists(w, persona)
        THEN Answer(w, 404, "Original persona not found", FALSE)
        ELSE IF old_path = PersonasRoot
        THEN Answer(w, 500, "Cannot move a directory into itself", FALSE)
        ELSE LET moved == [w EXCEPT
                     !.dirs = (new_name :> w.dirs[old_path]) @@ Without(w.dirs, old_path),
                     !.sessions = update_sessions_persona(w.sessions, persona, new_name),
                     !.default = IF w.default = <<persona>> THEN <<new_name>> ELSE @]
             IN  Answer(WriteContent(moved, new_name, content), 200,
                        "Persona saved and renamed", TRUE)

\* views.delete_persona
DeletePersona(w, raw_persona) ==
    LET persona == Strip(raw_persona)
        persona_path == Resolve(persona)
    IN  IF persona = <<>> THEN Answer(w, 400, "Persona name required", FALSE)
        ELSE IF ~PathExists(w, persona) THEN Answer(w, 404, "Persona not found", FALSE)
        ELSE IF Len(get_available_personalities(w.dirs)) <= 1
        THEN Answer(w, 400, "Cannot delete the only persona", FALSE)
        ELSE IF persona_path = PersonasRoot
        THEN \* shutil.rmtree empties the directory, then fails to remove "."
             Answer([w EXCEPT !.dirs = <<>>], 500, "Invalid argument", FALSE)
        ELSE LET dirs == Without(w.dirs, persona_path)
                 available_personas == get_available_personalities(dirs)
                 reset == w.default = <<persona>> /\ available_personas # <<>>
                 default_persona == IF reset THEN available_personas[1]
                                    ELSE IF w.default = <<>> THEN <<>>
                                    ELSE w.default[1]
             IN  Answer([dirs |-> dirs,
                         sessions |-> update_sessions_persona(w.sessions, persona,
                                                              default_persona),
                         default |-> IF reset THEN <<default_persona>> ELSE w.default],
                        200, "Persona deleted", FALSE)

PersonaWorld == [dirs |-> pw.dirs, sessions |-> pw.sessions, default |-> pw.default]

Answered(op, persona, new_name, out) ==
    pw' = [dirs |-> out.world.dirs, sessions |-> out.world.sessions,
           default |-> out.world.default, ops |-> pw.ops + 1,
           last |-> [op |-> op, persona |-> persona, new_name |-> new_name,
                     status |-> out.status, reason |-> out.reason,
                     renamed |-> out.renamed, pre |-> PersonaWorld]]

create_persona ==
    /\ pw.ops < MaxPersonaOps
    /\ \E name \in PersonaInputs, content \in PersonaTexts :
           Answered("create", name, <<>>, CreatePersona(PersonaWorld, name, content))
    /\ UNCHANGED <<memVars, turnVars, rt, pay, ttl, ctx, cf, sv, st, ss>>

save_persona_file ==
    /\ pw.ops < MaxPersonaOps
    /\ \E persona \in PersonaInputs, new_name \in PersonaInputs, content \in PersonaTexts :
           Answered("save", persona, new_name,
                    SavePersonaFile(PersonaWorld, persona, new_name, content))
    /\ UNCHANGED <<memVars, turnVars, rt, pay, ttl, ctx, cf, sv, st, ss>>

delete_persona ==
    /\ pw.ops < MaxPersonaOps
    /\ \E persona \in PersonaInputs :
           Answered("delete", persona, <<>>, DeletePersona(PersonaWorld, persona))
    /\ UNCHANGED <<memVars, turnVars, rt, pay, ttl, ctx, cf, sv, st, ss>>

\* session_persona of the views, with DEFAULT_PERSONA as the persona
\* requests keep it
BoundPersona(file, default) ==
    IF file.kind = "dict" /\ Get(file.doc, "persona", <<>>) # <<>>
    THEN file.doc.persona
    ELSE IF default # <<>> /\ default[1] # <<>> THEN default[1]
    ELSE Assistant

\* a successful turn on a stored session, with the title update of
\* views.send_message when new_title is given: ChatCore loads the file,
\* appends the two messages and saves
TurnOnSession(file, default, new_title) ==
    LET core == LoadHistory(file, BoundPersona(file, default))
    IN  SaveHistory([title |-> IF new_title = <<>> THEN core.title ELSE new_title[1],
                     persona |-> core.persona,
                     messages |-> core.messages \o <<Msg("user", <<"h", "i">>, 1),
                                                     Msg("assistant", <<"o", "k">>, 1)>>])

SessionRequest(op, sessions) ==
    /\ pw.ops < MaxPersonaOps
    /\ pw' = [pw EXCEPT !.sessions = sessions, !.ops = @ + 1,
                        !.last = [op |-> op, persona |-> <<>>, new_name |-> <<>>,
                                  status |-> 200, reason |-> "", renamed |-> FALSE,
                                  pre |-> PersonaWorld]]
    /\ UNCHANGED <<memVars, turnVars, rt, pay, ttl, ctx, cf, sv, st, ss>>

\* views.send_message on one of the stored sessions
session_turn ==
    \E i \in DOMAIN pw.sessions, new_title \in {<<>>, <<NewChat>>} :
        SessionRequest("turn",
            [pw.sessions EXCEPT ![i] = TurnOnSession(pw.sessions[i], pw.default, new_title)])

\* views.toggle_pin_chat, rename_chat and save_draft on one of the stored
\* sessions
session_metadata ==
    \E i \in DOMAIN pw.sessions :
        \/ SessionRequest("pin",
               [pw.sessions EXCEPT ![i] =
                   IF pw.sessions[i].kind = "dict"
                   THEN SetKey(@, "pinned", ~Get(pw.sessions[i].doc, "pinned", FALSE))
                   ELSE @])
        \/ SessionRequest("rename_chat",
               [pw.sessions EXCEPT ![i] = SetKey(@, "title", NewChat)])
        \/ SessionRequest("draft",
               [pw.sessions EXCEPT ![i] = SetKey(@, "draft", <<"n">>)])

NoWorld == [dirs |-> <<>>, sessions |-> <<>>, default |-> <<>>]

PwIdle ==
    [dirs |-> <<>>, sessions |-> <<>>, default |-> <<>>, ops |-> 0,
     last |-> [op |-> "none", persona |-> <<>>, new_name |-> <<>>, status |-> 0,
               reason |-> "", renamed |-> FALSE, pre |-> NoWorld]]

-----------------------------------------------------------------------------
(* Context-file requests: user_context.upload_file / delete_file /          *)
(* toggle_file, views.get_context_file_content / save_context_file_content  *)
(* and their persona-scoped counterparts of persona_context.  A filename is *)
(* a sequence of path components, a component a stem and an extension; a    *)
(* file lives at a directory and a component.                               *)

MaxFileOps == 2

Comp(stem, ext) == [stem |-> stem, ext |-> ext]
ConfigJson == Comp("config", "json")
DotDot == Comp("..", "")

\* request values for a filename: plain names, the directory's own
\* config.json, a path into the parent directory, a path into a subdirectory
FilenameInputs ==
    { <<>>, <<Comp("c", "md")>>, <<Comp("d", "txt")>>, <<Comp("e", "md")>>,
      <<ConfigJson>>, <<DotDot, ConfigJson>>, <<Comp("x", ""), Comp("c", "md")>> }

\* os.path.basename(filename)
Basename(filename) == filename[Len(filename)]

\* filename.endswith(('.md', '.txt'))
HasContextExt(filename) == Basename(filename).ext \in {"md", "txt"}

InContextDir(name) == [dir |-> "context", name |-> name]

\* context_dir / filename, the filename taken as it came
Locate(filename) ==
    IF Len(filename) = 1 THEN InContextDir(filename[1])
    ELSE IF Len(filename) = 2 /\ filename[1] = DotDot
    THEN [dir |-> "parent", name |-> filename[2]]
    ELSE [dir |-> "context/" \o filename[1].stem, name |-> Basename(filename)]

TextDoc(t) == [kind |-> "text", text |-> t]
ConfigDoc(files) == [kind |-> "config", files |-> files]

\* get_config: the parsed config.json, {"files": {}} when the file is
\* missing; ok is FALSE when json.load raises
get_config(files) ==
    IF InContextDir(ConfigJson) \notin DOMAIN files THEN [ok |-> TRUE, files |-> <<>>]
    ELSE IF files[InContextDir(ConfigJson)].kind = "config"
    THEN [ok |-> TRUE, files |-> files[InContextDir(ConfigJson)].files]
    ELSE [ok |-> FALSE, files |-> <<>>]

\* save_config
save_config(files, config_files) ==
    (InContextDir(ConfigJson) :> ConfigDoc(config_files)) @@ files

Done(files, touched, status) == [files |-> files, touched |-> touched, status |-> status]

\* user_context.upload_file / persona_context.upload_file
UploadFile(files, raw, content) ==
    IF raw = <<>> \/ ~HasContextExt(raw) THEN Done(files, {}, "invalid")
    ELSE LET filename == Basename(raw)
             written == (InContextDir(filename) :> TextDoc(content)) @@ files
             config == get_config(written)
         IN  IF ~config.ok THEN Done(written, {InContextDir(filename)}, "raised")
             ELSE Done(save_config(written, (filename :> TRUE) @@ config.files),
                       {InContextDir(filename)}, "ok")

DeleteFileKeepsEntry(files, raw) ==
    IF raw = <<>> THEN Done(files, {}, "invalid")
    ELSE LET filename == Basename(raw)
             filepath == InContextDir(filename)
         IN  IF filepath \notin DOMAIN files THEN Done(files, {}, "not found")
             ELSE Done(Without(files, filepath), {filepath}, "ok")

\* user_context.delete_file / persona_context.delete_file
DeleteFile(files, raw) ==
    IF raw = <<>> THEN Done(files, {}, "invalid")
    ELSE LET filename == Basename(raw)
             filepath == InContextDir(filename)
         IN  IF filepath \notin DOMAIN files THEN Done(files, {}, "not found")
             ELSE LET removed == Without(files, filepath)
                      config == get_config(removed)
                  IN  IF ~config.ok THEN Done(removed, {filepath}, "raised")
                      ELSE IF filename \in DOMAIN config.files
                      THEN Done(save_config(removed, Without(config.files, filename)),
                                {filepath}, "ok")
                      ELSE Done(removed, {filepath}, "ok")

ToggleFileRemoves(files, raw) ==
    IF raw = <<>> THEN Done(files, {}, "invalid")
    ELSE LET filename == Basename(raw)
             config == get_config(files)
             enabled == ~Get(config.files, filename, TRUE)
             kept == IF enabled THEN files ELSE Without(files, InContextDir(filename))
         IN  IF ~config.ok THEN Done(files, {}, "raised")
             ELSE Done(save_config(kept, (filename :> enabled) @@ config.files), {}, "ok")

\* user_context.toggle_file / persona_context.toggle_file with enabled=None
ToggleFile(files, raw) ==
    IF raw = <<>> THEN Done(files, {}, "invalid")
    ELSE LET filename == Basename(raw)
             config == get_config(files)
         IN  IF ~config.ok THEN Done(files, {}, "raised")
             ELSE Done(save_config(files,
                           (filename :> ~Get(config.files, filename, TRUE)) @@ config.files),
                       {}, "ok")

\* the file a content request addresses: the views of the user context join
\* the filename as it came, persona_context takes its basename first
ContentPath(scope, raw) ==
    IF scope = "persona" THEN InContextDir(Basename(raw)) ELSE Locate(raw)

\* views.get_context_file_content / persona_context.get_file_content
GetContent(files, scope, raw) ==
    IF raw = <<>> THEN Done(files, {}, "invalid")
    ELSE IF ContentPath(scope, raw) \notin DOMAIN files THEN Done(files, {}, "not found")
    ELSE Done(files, {ContentPath(scope, raw)}, "ok")

\* views.save_context_file_content / persona_context.save_file_content
SaveContent(files, scope, raw, content) ==
    IF raw = <<>> THEN Done(files, {}, "invalid")
    ELSE IF ContentPath(scope, raw) \notin DOMAIN files THEN Done(files, {}, "not found")
    ELSE Done((ContentPath(scope, raw) :> TextDoc(content)) @@ files,
              {ContentPath(scope, raw)}, "ok")

\* the names os.listdir(context_dir) returns
ListDir(files) == {path.name : path \in {p \in DOMAIN files : p.dir = "context"}}

\* sorted(...) of the names kept; the stems used are single characters
RECURSIVE SortedComps(_)
SortedComps(names) ==
    IF names = {} THEN <<>>
    ELSE LET first == CHOOSE x \in names :
                          \A y \in names \ {x} : LexLess(<<x.stem>>, <<y.stem>>)
         IN  <<first>> \o SortedComps(names \ {first})

\* user_context.list_files on the disk: names ending in .md or .txt other
\* than config.json, each with config["files"][name]["enabled"], True when
\* the config has no entry
ListContextFiles(files) ==
    LET config == get_config(files)
        listing == SortedComps({n \in ListDir(files) :
                                   n.ext \in {"md", "txt"} /\ n # ConfigJson})
    IN  [i \in 1..Len(listing) |->
            [name |-> listing[i], enabled |-> Get(config.files, listing[i], TRUE)]]

RECURSIVE EnabledParts(_, _)
EnabledParts(files, listed) ==
    IF listed = <<>> THEN <<>>
    ELSE (IF Head(listed).enabled /\ InContextDir(Head(listed).name) \in DOMAIN files
          THEN <<[name |-> Head(listed).name,
                  text |-> files[InContextDir(Head(listed).name)].text]>>
          ELSE <<>>)
             \o EnabledParts(files, Tail(listed))

\* user_context.load_enabled_context on the disk: the (name, text) parts it
\* joins, or the exception of get_config
LoadEnabledContext(files) ==
    IF ~get_config(files).ok THEN [ok |-> FALSE, parts |-> <<>>]
    ELSE [ok |-> TRUE, parts |-> EnabledParts(files, ListContextFiles(files))]

FileRequest(op, raw, out) ==
    /\ cf.ops < MaxFileOps
    /\ cf' = [files |-> out.files, ops |-> cf.ops + 1,
              last |-> [op |-> op, filename |-> raw, touched |-> out.touched,
                        status |-> out.status, pre |-> cf.files,
                        context |-> IF op = "assemble" THEN LoadEnabledContext(cf.files).parts
                                    ELSE <<>>]]
    /\ UNCHANGED <<memVars, turnVars, rt, pay, ttl, ctx, pw, sv, st, ss>>

upload_file ==
    \E raw \in FilenameInputs, content \in PersonaTexts :
        FileRequest("upload", raw, UploadFile(cf.files, raw, content))

delete_file ==
    \E raw \in FilenameInputs : FileRequest("delete", raw, DeleteFile(cf.files, raw))

toggle_file ==
    \E raw \in FilenameInputs : FileRequest("toggle", raw, ToggleFile(cf.files, raw))

get_context_file_content ==
    \E raw \in FilenameInputs, scope \in {"user", "persona"} :
        FileRequest("read", raw, GetContent(cf.files, scope, raw))

save_context_file_content ==
    \E raw \in FilenameInputs, scope \in {"user", "persona"}, content \in PersonaTexts :
        FileRequest("save", raw, SaveContent(cf.files, scope, raw, content))

\* context assembly of a turn: load_context calls load_enabled_context
assemble_enabled_context ==
    FileRequest("assemble", <<>>,
        Done(cf.files,
             {InContextDir(part.name) :
                  part \in {LoadEnabledContext(cf.files).parts[k] :
                               k \in 1..Len(LoadEnabledContext(cf.files).parts)}},
             IF LoadEnabledContext(cf.files).ok THEN "ok" ELSE "raised"))

CfIdle ==
    [files |-> <<>>, ops |-> 0,
     last |-> [op |-> "none", filename |-> <<>>, touched |-> {}, status |-> "none",
               pre |-> <<>>, context |-> <<>>]]

-----------------------------------------------------------------------------
(* A save of a session file with a reader beside it: ChatCore._save_history *)
(* opens the file with mode 'w', which truncates it, json.dump writes the   *)
(* document through the file's buffer, and leaving the with block flushes   *)
(* and closes.  The requests of other threads (the sidebar's                *)
(* get_sessions_with_titles, another ChatCore._load_history) open and parse *)
(* the same path with no lock.  The document on disk is a sequence of       *)
(* chunks of its JSON text.                                                 *)

MaxSaves == 2

\* the title, persona and messages a ChatCore holds when it saves
SavedCores ==
    { [title |-> NewChat, persona |-> "assistant", messages |-> <<>>],
      [title |-> NewChat, persona |-> "assistant", messages |-> <<U0(Hi), A0(Ok)>>],
      [title |-> Cats, persona |-> "sage", messages |-> <<U0(Hi), A0(Ok)>>] }

RECURSIVE MessageChunks(_)
MessageChunks(messages) ==
    IF messages = <<>> THEN <<>>
    ELSE <<[tok |-> "message", value |-> Head(messages)]>> \o MessageChunks(Tail(messages))

\* json.dump(to_save, f, indent=4)
JsonDump(doc) ==
    <<[tok |-> "{"], [tok |-> "title", value |-> doc.title],
      [tok |-> "persona", value |-> doc.persona]>>
        \o MessageChunks(doc.messages) \o <<[tok |-> "}"]>>

RECURSIVE ChunkMessages(_)
ChunkMessages(chunks) ==
    IF chunks = <<>> THEN <<>>
    ELSE IF Head(chunks).tok = "message"
    THEN <<Head(chunks).value>> \o ChunkMessages(Tail(chunks))
    ELSE ChunkMessages(Tail(chunks))

\* json.load(f): the document, or JSONDecodeError on an empty or
\* unterminated text
JsonLoad(bytes) ==
    IF Len(bytes) >= 4 /\ bytes[1].tok = "{" /\ bytes[Len(bytes)].tok = "}"
    THEN [kind |-> "doc",
          doc |-> [title |-> bytes[2].value, persona |-> bytes[3].value,
                   messages |-> ChunkMessages(bytes)]]
    ELSE [kind |-> "error"]

\* the entry get_sessions_with_titles lists for the file
ListedTitle(bytes) ==
    IF JsonLoad(bytes).kind = "doc" THEN JsonLoad(bytes).doc.title
    ELSE <<"E", "r", "r", "o", "r", " ", "L", "o", "a", "d", "i", "n", "g">>

\* with open(self.history_file, 'w') as f: the file is truncated
save_open ==
    /\ sv.stage = "closed"
    /\ sv.saves < MaxSaves
    /\ \E core \in SavedCores :
        sv' = [sv EXCEPT !.stage = "open", !.bytes = <<>>, !.previous = JsonLoad(sv.bytes).doc,
                         !.pending = JsonDump(SaveHistory(core).doc),
                         !.saving = SaveHistory(core).doc, !.saves = @ + 1]
    /\ UNCHANGED <<memVars, turnVars, rt, pay, ttl, ctx, pw, cf, st, ss>>

\* the buffer of f is written out: some of the pending text reaches the file
save_flush ==
    /\ sv.stage = "open"
    /\ \E n \in 1..Len(sv.pending) :
        sv' = [sv EXCEPT !.bytes = @ \o SubSeq(sv.pending, 1, n),
                         !.pending = SubSeq(sv.pending, n + 1, Len(sv.pending))]
    /\ UNCHANGED <<memVars, turnVars, rt, pay, ttl, ctx, pw, cf, st, ss>>

\* the with block is left: the rest of the buffer is written, the file closed
save_close ==
    /\ sv.stage = "open"
    /\ sv' = [sv EXCEPT !.stage = "closed", !.bytes = @ \o sv.pending, !.pending = <<>>]
    /\ UNCHANGED <<memVars, turnVars, rt, pay, ttl, ctx, pw, cf, st, ss>>

\* another request opens the path and parses what it finds
read_session ==
    /\ sv.stage # "off"
    /\ sv' = [sv EXCEPT !.read = JsonLoad(sv.bytes), !.listed = <<ListedTitle(sv.bytes)>>,
                        !.read_stage = sv.stage]
    /\ UNCHANGED <<memVars, turnVars, rt, pay, ttl, ctx, pw, cf, st, ss>>

SvIdle ==
    [stage |-> "off", bytes |-> <<>>, pending |-> <<>>, saves |-> 0,
     previous |-> [title |-> <<>>, persona |-> "", messages |-> <<>>],
     saving |-> [title |-> <<>>, persona |-> "", messages |-> <<>>],
     read |-> [kind |-> "none"], listed |-> <<>>, read_stage |-> "off"]

-----------------------------------------------------------------------------
(* Readers of persisted JSON documents: utils.load_config,                  *)
(* utils.get_sessions_with_titles, ChatCore._load_history behind the views, *)
(* user_context.get_config, context_manager.get_personality_config,         *)
(* context_manager.load_context and the part of views.send_message that     *)
(* runs before the turn.  A document is a file record of the section        *)
(* "Session documents"; st.sessions is the sessions directory in ascending  *)
(* order of file name.                                                      *)

ErrorLoading == <<"E", "r", "r", "o", "r", " ", "L", "o", "a", "d", "i", "n", "g">>
OldSession == <<"O", "l", "d", " ", "S", "e", "s", "s", "i", "o", "n">>

\* how an operation ended: with a value and no provider call, with a
\* provider call, or with an exception
Value(v) == [raised |-> FALSE, value |-> v, called |-> FALSE]
Called(v) == [raised |-> FALSE, value |-> v, called |-> TRUE]
Raised == [raised |-> TRUE, value |-> <<>>, called |-> FALSE]

\* utils.load_config: {} when the file is missing or json.load raises
load_config(file) == IF file.kind = "dict" THEN file.doc ELSE <<>>

\* json.load in a function with no try block: user_context.get_config,
\* persona_context.get_config, context_manager.get_personality_config
LoadOrDefault(file, default) ==
    IF file.kind = "missing" THEN Value(default)
    ELSE IF file.kind = "dict" THEN Value(file.doc)
    ELSE Raised

SessionEntryUnlabelled(id, file) ==
    IF file.kind = "dict"
    THEN [id |-> id, title |-> Get(file.doc, "title", NewChat),
          persona |-> Get(file.doc, "persona", "assistant"),
          pinned |-> Get(file.doc, "pinned", FALSE)]
    ELSE [id |-> id, title |-> OldSession, persona |-> "assistant", pinned |-> FALSE]

\* one pass of the loop of utils.get_sessions_with_titles
SessionEntry(id, file) ==
    IF file.kind = "dict"
    THEN [id |-> id, title |-> Get(file.doc, "title", NewChat),
          persona |-> Get(file.doc, "persona", "assistant"),
          pinned |-> Get(file.doc, "pinned", FALSE)]
    ELSE IF file.kind = "list"
    THEN [id |-> id, title |-> OldSession, persona |-> "assistant", pinned |-> FALSE]
    ELSE [id |-> id, title |-> ErrorLoading, persona |-> "assistant", pinned |-> FALSE]

\* utils.get_sessions_with_titles over the files numbered 1..n, sorted by id
\* with reverse=True
RECURSIVE SessionsWithTitles(_, _)
SessionsWithTitles(sessions, n) ==
    IF n = 0 THEN <<>>
    ELSE (IF sessions[n].kind = "missing" THEN <<>>
          ELSE <<SessionEntry(n, sessions[n])>>)
             \o SessionsWithTitles(sessions, n - 1)

get_sessions_with_titles(sessions) == SessionsWithTitles(sessions, Len(sessions))

\* groups[session["persona"]].append(session) on a defaultdict(list), the
\* keys in insertion order
AddToGroup(groups, session) ==
    IF \E k \in 1..Len(groups) : groups[k].persona = session.persona
    THEN [k \in 1..Len(groups) |->
             IF groups[k].persona = session.persona
             THEN [groups[k] EXCEPT !.sessions = Append(@, session)]
             ELSE groups[k]]
    ELSE Append(groups, [persona |-> session.persona, sessions |-> <<session>>])

RECURSIVE GroupUnpinned(_, _)
GroupUnpinned(groups, unpinned_sessions) ==
    IF unpinned_sessions = <<>> THEN groups
    ELSE GroupUnpinned(AddToGroup(groups, Head(unpinned_sessions)), Tail(unpinned_sessions))

\* key=lambda p: groups[p][0]["id"]
GroupKey(group) == group.sessions[1].id

\* the order of two keys under sorted(..., reverse=reverse)
Before(a, b, reverse) == IF reverse THEN a > b ELSE a < b

\* one insertion of a stable sort by key
InsertByKey(sorted, group, reverse) ==
    LET later == {k \in 1..Len(sorted) :
                     Before(GroupKey(group), GroupKey(sorted[k]), reverse)}
        at == IF later = {} THEN Len(sorted) + 1
              ELSE CHOOSE k \in later : \A j \in later : k <= j
    IN  SubSeq(sorted, 1, at - 1) \o <<group>> \o SubSeq(sorted, at, Len(sorted))

RECURSIVE SortGroups(_, _, _)
SortGroups(sorted, groups, reverse) ==
    IF groups = <<>> THEN sorted
    ELSE SortGroups(InsertByKey(sorted, Head(groups), reverse), Tail(groups), reverse)

persona_order_ascending(groups) == SortGroups(<<>>, groups, FALSE)

\* sorted(groups.keys(), key=..., reverse=True)
persona_order(groups) == SortGroups(<<>>, groups, TRUE)

IsPinned(session) == session.pinned
NotPinned(session) == ~session.pinned

\* utils.group_sessions_by_persona
group_sessions_by_persona(sessions) ==
    [pinned_sessions |-> SelectSeq(sessions, IsPinned),
     ordered_groups |-> persona_order(GroupUnpinned(<<>>, SelectSeq(sessions, NotPinned)))]

\* "Load persona from session file" and "Fallback to default" of the views
session_persona(file, config) ==
    LET from_file == IF file.kind = "dict" THEN Get(file.doc, "persona", "") ELSE ""
        from_config == Get(config, "DEFAULT_PERSONA", "assistant")
    IN  IF from_file # "" THEN from_file
        ELSE IF from_config # "" THEN from_config
        ELSE "assistant"

\* load_context up to its first json.load: load_enabled_context calls
\* list_files, which calls get_config
AssembleContext(context_config) ==
    IF LoadOrDefault(context_config, <<>>).raised THEN Raised ELSE Value("prompt")

\* views.send_message from load_config to the constructed ChatCore
PrepareTurn(w, id) ==
    LET config == load_config(w.config)
        persona == session_persona(w.sessions[id], config)
    IN  IF Get(config, "OPENROUTER_API_KEY", "") = "" THEN Value("configuration error")
        ELSE IF LoadOrDefault(w.persona_config, <<>>).raised THEN Raised
        ELSE IF AssembleContext(w.context_config).raised THEN Raised
        ELSE Called(LoadHistory(w.sessions[id], persona))

\* utils.aggregate_all_sessions_messages: the messages of every parsable
\* session file
RECURSIVE aggregate_all_sessions_messages(_)
aggregate_all_sessions_messages(sessions) ==
    IF sessions = <<>> THEN <<>>
    ELSE (IF Head(sessions).kind = "dict" THEN Get(Head(sessions).doc, "messages", <<>>)
          ELSE IF Head(sessions).kind = "list" THEN Head(sessions).items
          ELSE <<>>)
             \o aggregate_all_sessions_messages(Tail(sessions))

\* views.update_memory: Summarizer.update_long_term_memory posts to the
\* provider whenever the sessions hold a message
UpdateMemory(config_file, all_messages) ==
    IF all_messages = <<>> THEN Value("No messages found in any session")
    ELSE Called("Memory Updated")

\* views.modify_memory: `if not config`, then
\* Summarizer.modify_memory_with_command, which posts to the provider
\* whenever the memory file has text
ModifyMemory(config_file, has_memory) ==
    IF DOMAIN load_config(config_file) = {} THEN Value("Configuration not found")
    ELSE IF ~has_memory THEN Value("")
    ELSE Called("memory")

Read(op, id, out) ==
    /\ st.stage # "off"
    /\ st' = [st EXCEPT !.stage = "read",
                        !.last = [op |-> op, id |-> id, raised |-> out.raised,
                                  value |-> out.value, called |-> out.called]]
    /\ UNCHANGED <<memVars, turnVars, rt, pay, ttl, ctx, pw, cf, sv, ss>>

read_global_config == Read("load_config", 0, Value(load_config(st.config)))

list_sessions == Read("list", 0, Value(get_sessions_with_titles(st.sessions)))

load_session ==
    \E id \in 1..Len(st.sessions) :
        /\ st.sessions[id].kind # "missing"
        /\ Read("load", id,
                Value(LoadHistory(st.sessions[id],
                                  session_persona(st.sessions[id], load_config(st.config)))))

read_context_config ==
    Read("get_config", 0, LoadOrDefault(st.context_config, [files |-> <<>>]))

read_persona_config ==
    Read("get_personality_config", 0, LoadOrDefault(st.persona_config, <<>>))

assemble_context == Read("load_context", 0, AssembleContext(st.context_config))

prepare_turn ==
    \E id \in 1..Len(st.sessions) :
        /\ st.sessions[id].kind # "missing"
        /\ Read("send_message", id, PrepareTurn(st, id))

\* the sidebar of the views: get_sessions_with_titles, then
\* group_sessions_by_persona
group_sessions ==
    Read("group", 0,
         Value(group_sessions_by_persona(get_sessions_with_titles(st.sessions))))

update_memory ==
    Read("update_memory", 0,
         UpdateMemory(st.config, aggregate_all_sessions_messages(st.sessions)))

modify_memory ==
    \E has_memory \in BOOLEAN :
        Read("modify_memory", 0, ModifyMemory(st.config, has_memory))

\* config.get("MODEL", "anthropic/claude-haiku-4.5"), abbreviated
FallbackModel == "haiku"

SaveMaxHistoryUnsaved(config_file, raw) ==
    [file |-> config_file, key |-> "MAX_HISTORY", value |-> ClampHistory(raw), saved |-> TRUE]

\* views.save_max_history: the file it leaves, and the key and value its
\* answer reports as saved
SaveMaxHistory(config_file, raw) ==
    [file |-> DictFile(Put(load_config(config_file), "MAX_HISTORY", ClampHistory(raw))),
     key |-> "MAX_HISTORY", value |-> ClampHistory(raw), saved |-> TRUE]

\* views.save_settings: the default persona, written when it differs
SaveSettings(config_file, persona) ==
    LET config == load_config(config_file)
        selected_persona == IF persona = "" THEN "assistant" ELSE persona
    IN  IF selected_persona # Get(config, "DEFAULT_PERSONA", "")
        THEN [file |-> DictFile(Put(config, "DEFAULT_PERSONA", selected_persona)),
              key |-> "DEFAULT_PERSONA", value |-> selected_persona, saved |-> TRUE]
        ELSE [file |-> config_file, key |-> "DEFAULT_PERSONA", value |-> selected_persona,
              saved |-> TRUE]

\* views.save_provider_model with provider "openrouter"
SaveProviderModel(config_file, api_key, model, keep_existing_key) ==
    LET config == load_config(config_file)
        with_provider == Put(config, "PROVIDER", "openrouter")
        with_key == IF api_key # "" /\ ~keep_existing_key
                    THEN Put(with_provider, "OPENROUTER_API_KEY", api_key)
                    ELSE with_provider
    IN  IF model = ""
        THEN [file |-> config_file, key |-> "MODEL", value |-> model, saved |-> FALSE]
        ELSE IF /\ keep_existing_key
                /\ Get(config, "OPENROUTER_API_KEY", "") = ""
                /\ config_file.kind # "missing"
        THEN [file |-> config_file, key |-> "MODEL", value |-> model, saved |-> FALSE]
        ELSE [file |-> DictFile(Put(with_key, "MODEL", model)),
              key |-> "MODEL", value |-> model, saved |-> TRUE]

\* a settings request: st.written keeps, per key, the value of the last
\* request that answered with success
WriteSetting(op, out) ==
    /\ st.stage # "off"
    /\ st' = [st EXCEPT !.stage = "read",
                        !.config = out.file,
                        !.written = IF out.saved THEN (out.key :> out.value) @@ @ ELSE @,
                        !.last = [op |-> op, id |-> 0, raised |-> FALSE,
                                  value |-> <<>>, called |-> FALSE]]
    /\ UNCHANGED <<memVars, turnVars, rt, pay, ttl, ctx, pw, cf, sv, ss>>

settings_save_max_history ==
    \E raw \in RawLimits : WriteSetting("save_max_history", SaveMaxHistory(st.config, raw))

settings_save_default_persona ==
    \E persona \in {"", "assistant", "sage"} :
        WriteSetting("save_settings", SaveSettings(st.config, persona))

settings_save_provider_model ==
    \E api_key \in {"", "k2"}, model \in {"", "m2"}, keep_existing_key \in BOOLEAN :
        WriteSetting("save_provider_model",
                     SaveProviderModel(st.config, api_key, model, keep_existing_key))

\* get_model_for_persona: the persona's own model, else config["MODEL"]
get_model_for_persona(config, persona_config) ==
    IF Get(load_config(persona_config), "model", "") # ""
    THEN Get(load_config(persona_config), "model", "")
    ELSE Get(config, "MODEL", FallbackModel)

\* views.send_message from load_config to the payload of the first call:
\* posted_persona is <<>> when the request has no persona field
TurnSettings(w, id, is_new_chat, posted_persona) ==
    LET config == load_config(w.config)
        selected_persona ==
            IF posted_persona = <<>> THEN Get(config, "DEFAULT_PERSONA", "assistant")
            ELSE posted_persona[1]
        file == IF is_new_chat
                THEN DictFile([title |-> NewChat,
                               persona |-> IF selected_persona = "" THEN "assistant"
                                           ELSE selected_persona,
                               messages |-> <<>>])
                ELSE w.sessions[id]
        persona == session_persona(file, config)
        max_history == Get(config, "MAX_HISTORY", DefaultMaxHistory)
        core == LoadHistory(file, persona)
    IN  IF Get(config, "OPENROUTER_API_KEY", "") = "" THEN Value("configuration error")
        ELSE IF LoadOrDefault(w.persona_config, <<>>).raised THEN Raised
        ELSE Called([max_history |-> max_history,
                     model |-> get_model_for_persona(config, w.persona_config),
                     persona |-> core.persona,
                     is_new_chat |-> is_new_chat,
                     posted_persona |-> posted_persona,
                     stored |-> Len(core.messages) + 1,
                     payload |-> get_payload_messages(<<>>, max_history,
                                     Append(core.messages, Msg("user", Hi, 1)))])

turn_settings ==
    \E id \in 1..Len(st.sessions), is_new_chat \in BOOLEAN,
       posted_persona \in {<<>>, <<"">>, <<"sage">>} :
        /\ st.sessions[id].kind # "missing"
        /\ Read("turn", id, TurnSettings(st, id, is_new_chat, posted_persona))

StIdle ==
    [stage |-> "off", sessions |-> <<>>, config |-> Missing, persona_config |-> Missing,
     context_config |-> Missing, written |-> <<>>,
     last |-> [op |-> "none", id |-> 0, raised |-> FALSE, value |-> <<>>,
               called |-> FALSE]]

-----------------------------------------------------------------------------
(* Session creation: views.start_chat and the new-chat branch of            *)
(* views.send_message name the file after datetime.now() formatted with     *)
(* '%Y%m%d_%H%M%S' and open it with mode 'w'.  The clock counts seconds; a  *)
(* session id is the second it was formatted from.                          *)

MaxClock == 2

\* f"session_{datetime.now().strftime('%Y%m%d_%H%M%S')}.json"
NewSessionId(clock) == clock

\* initial_data of views.start_chat
StartChatData(selected_persona, user_message, clock) ==
    [title |-> NewChat, persona |-> selected_persona,
     messages |-> <<Msg("user", user_message, clock)>>]

\* initial_data of views.send_message
NewChatData(selected_persona) ==
    [title |-> NewChat, persona |-> selected_persona, messages |-> <<>>]

\* with open(session_path, 'w') as f: json.dump(initial_data, f)
Create(op, data) ==
    /\ ss.stage # "off"
    /\ ss' = [ss EXCEPT !.sessions = (NewSessionId(ss.clock) :> data) @@ ss.sessions,
                        !.stage = "created",
                        !.last = [op |-> op, id |-> NewSessionId(ss.clock),
                                  pre |-> ss.sessions]]
    /\ UNCHANGED <<memVars, turnVars, rt, pay, ttl, ctx, pw, cf, sv, st>>

start_chat ==
    \E selected_persona \in PersonaNames, user_message \in UserInputs :
        Create("start_chat", StartChatData(selected_persona, user_message, ss.clock))

send_message_new_chat ==
    \E selected_persona \in PersonaNames :
        Create("send_message", NewChatData(selected_persona))

\* a second passes
tick ==
    /\ ss.stage # "off"
    /\ ss.clock < MaxClock
    /\ ss' = [ss EXCEPT !.clock = @ + 1]
    /\ UNCHANGED <<memVars, turnVars, rt, pay, ttl, ctx, pw, cf, sv, st>>

SsIdle ==
    [stage |-> "off", clock |-> 0, sessions |-> <<>>,
     last |-> [op |-> "none", id |-> 0, pre |-> <<>>]]

ExtFixed ==
    /\ ttl = TtlIdle /\ ctx = CtxIdle /\ pw = PwIdle /\ cf = CfIdle /\ sv = SvIdle
    /\ st = StIdle /\ ss = SsIdle

-----------------------------------------------------------------------------
(* Initial states and specifications *)

MemIdle ==
    [op |-> "none", prev |-> "none", pre |-> NoFile, messages |-> <<>>, called |-> FALSE,
     conversation |-> <<>>, resp |-> NoResponse, ret |-> <<>>, raised |-> FALSE]

MemFixed == ltm_file = NoFile /\ mem = MemIdle

TurnFixed ==
    /\ session_file = Missing
    /\ current_session = FALSE
    /\ chat = IdleChat
    /\ pc = "idle"
    /\ turns = 0

RtIdle ==
    [stage |-> "off", core |-> [title |-> NewChat, persona |-> DefaultPersona,
                                messages |-> <<>>],
     orig |-> [title |-> NewChat, persona |-> DefaultPersona, messages |-> <<>>],
     file |-> Missing, first |-> Missing]

RtFixed == rt = RtIdle

PayIdle ==
    [stage |-> "off", max_history |-> DefaultMaxHistory, system_prompt |-> <<>>,
     messages |-> <<>>, payload |-> <<>>]

PayFixed == pay = PayIdle

\* session files a turn can find: written by start_chat, by earlier turns
\* (one with a title that kept model artifacts, pinned, with a draft), a
\* legacy bare list, an unparsable file
StoredSessions ==
    { DictFile([title |-> NewChat, persona |-> "assistant", messages |-> <<U0(Hi)>>]),
      DictFile([title |-> Malformed, persona |-> "sage",
                messages |-> <<U0(Bracketed), A0(Ok)>>,
                pinned |-> TRUE, draft |-> <<"d">>]),
      DictFile([title |-> Cats, persona |-> "assistant",
                messages |-> <<U0(Hi), A0(Ok)>>]),
      ListFile(<<U0(Hi), A0(Ok)>>),
      Corrupt }

Init ==
    /\ \/ session_file = Missing /\ current_session = FALSE
       \/ session_file \in StoredSessions /\ current_session = TRUE
    /\ chat = IdleChat
    /\ pc = "idle"
    /\ turns = 0
    /\ MemFixed /\ RtFixed /\ PayFixed /\ ExtFixed

Next == SendStart \/ Attempt \/ Respond \/ TitleStep

Spec == Init /\ [][Next]_vars

LtmFiles ==
    { NoFile, File(<<>>), File(Rep("m", 50)), File(Rep("m", 51)), File(Rep("m", 200)) }

InitMem ==
    /\ ltm_file \in LtmFiles
    /\ mem = MemIdle
    /\ TurnFixed /\ RtFixed /\ PayFixed /\ ExtFixed

NextMem == update_long_term_memory \/ modify_memory_with_command \/ wipe_memory

\* the turn runs in one thread and every provider call returns or raises
\* within its timeout, so a pending pass of the loop and the code after the
\* loop are eventually executed
SpecTurnFair == Spec /\ WF_vars(Attempt) /\ WF_vars(Respond)

\* turns on the session together with the metadata requests
NextSession == Next \/ toggle_pin_chat \/ rename_chat \/ save_draft

SpecSession == Init /\ [][NextSession]_vars

\* a turn with the metadata requests of another worker inside it
NextInFlight ==
    Next \/ toggle_pin_chat_in_flight \/ rename_chat_in_flight \/ save_draft_in_flight

SpecInFlight == Init /\ [][NextInFlight]_vars

SpecMem == InitMem /\ [][NextMem]_vars

\* the memory requests of the views
NextMemRequest == update_memory_request \/ modify_memory_with_command \/ wipe_memory

SpecMemRequest == InitMem /\ [][NextMemRequest]_vars

RtSessions ==
    [title : {NewChat, Cats, Malformed},
     persona : PersonaNames,
     messages : {<<>>, <<U0(Hi)>>, <<U0(Hi), A0(Ok)>>}]

InitRoundTrip ==
    /\ \E core \in RtSessions, file \in {Missing, Corrupt} \cup StoredSessions :
        rt = [stage |-> "new", core |-> core, orig |-> core, file |-> file,
              first |-> Missing]
    /\ MemFixed /\ TurnFixed /\ PayFixed /\ ExtFixed

NextRoundTrip == RtSaveFirst \/ RtLoad \/ RtSaveAgain

SpecRoundTrip == InitRoundTrip /\ [][NextRoundTrip]_vars

InitPayload ==
    /\ \E n \in 0..MaxStored, system_prompt \in SystemPrompts :
        pay = [stage |-> "config", max_history |-> DefaultMaxHistory,
               system_prompt |-> system_prompt, messages |-> NumberedMessages(n),
               payload |-> <<>>]
    /\ MemFixed /\ TurnFixed /\ RtFixed /\ ExtFixed

NextPayload == save_max_history \/ BuildPayload

SpecPayload == InitPayload /\ [][NextPayload]_vars

CoreFixed == MemFixed /\ TurnFixed /\ RtFixed /\ PayFixed

InitTitle ==
    /\ \E user_prompt \in TitlePrompts, assistant_response \in TitleAssistantResponses,
          resp \in TitleAnswers :
        ttl = [stage |-> "args", user_prompt |-> user_prompt,
               assistant_response |-> assistant_response, resp |-> resp,
               ret |-> <<>>, raised |-> FALSE]
    /\ CoreFixed /\ ctx = CtxIdle /\ pw = PwIdle /\ cf = CfIdle /\ sv = SvIdle /\ st = StIdle
    /\ ss = SsIdle

NextTitle == generate_title_call

SpecTitle == InitTitle /\ [][NextTitle]_vars

InitContext ==
    /\ \E personality \in {[exists |-> FALSE, files |-> {}]}
                             \cup {[exists |-> TRUE, files |-> fs] :
                                       fs \in SUBSET PersonaFileNames},
          dir \in SUBSET ContextFileNames, ltm \in {NoFile, File(<<"m">>)} :
        \E config \in ContextConfigs(dir) :
            ctx = [stage |-> "files", personality |-> personality, dir |-> dir,
                   config |-> config, ltm |-> ltm, prompt |-> <<>>]
    /\ CoreFixed /\ ttl = TtlIdle /\ pw = PwIdle /\ cf = CfIdle /\ sv = SvIdle /\ st = StIdle
    /\ ss = SsIdle

NextContext == load_context_call

SpecContext == InitContext /\ [][NextContext]_vars

SessionOf(persona) ==
    DictFile([title |-> Cats, persona |-> persona, messages |-> <<U0(Hi), A0(Ok)>>])

\* the sessions directory: three sessions of one persona; sessions of two
\* personas beside a legacy bare list; a session file without a persona key
\* beside an unparsable one
PersonaSessionDirs ==
    { <<SessionOf(Sage), SessionOf(Sage), SessionOf(Sage)>>,
      <<SessionOf(Assistant), SessionOf(Sage), ListFile(<<U0(Hi), A0(Ok)>>)>>,
      <<SessionOf(Sage), DictFile([title |-> Cats, messages |-> <<U0(Hi)>>]), Corrupt>> }

PersonaDirs ==
    { (Assistant :> <<"o", "l", "d">>) @@ (Sage :> <<"o", "l", "d">>),
      (Sage :> <<"o", "l", "d">>) }

InitPersona ==
    /\ \E dirs \in PersonaDirs, sessions \in PersonaSessionDirs,
          default \in {<<>>, <<Assistant>>, <<Sage>>} :
        pw = [PwIdle EXCEPT !.dirs = dirs, !.sessions = sessions, !.default = default]
    /\ CoreFixed /\ ttl = TtlIdle /\ ctx = CtxIdle /\ cf = CfIdle /\ sv = SvIdle /\ st = StIdle
    /\ ss = SsIdle

NextPersona == create_persona \/ save_persona_file \/ delete_persona

SpecPersona == InitPersona /\ [][NextPersona]_vars

\* persona requests and session requests on the same sessions directory
InitBinding ==
    /\ \E sessions \in PersonaSessionDirs, default \in {<<>>, <<Sage>>} :
        pw = [PwIdle EXCEPT !.dirs = (Assistant :> <<"o", "l", "d">>)
                                         @@ (Sage :> <<"o", "l", "d">>),
                            !.sessions = sessions, !.default = default]
    /\ CoreFixed /\ ttl = TtlIdle /\ ctx = CtxIdle /\ cf = CfIdle /\ sv = SvIdle /\ st = StIdle
    /\ ss = SsIdle

NextBinding == NextPersona \/ session_turn \/ session_metadata

SpecBinding == InitBinding /\ [][NextBinding]_vars

\* the global config.json beside the data directories
GlobalConfig == [dir |-> "parent", name |-> ConfigJson]

\* the disk a request finds: an empty context directory, or two uploaded
\* files with their config.json; the global config.json in the parent
ContextDisks ==
    { (GlobalConfig :> TextDoc(<<"k", "e", "y">>)),
      (GlobalConfig :> TextDoc(<<"k", "e", "y">>))
          @@ (InContextDir(Comp("c", "md")) :> TextDoc(<<"o", "l", "d">>))
          @@ (InContextDir(Comp("d", "txt")) :> TextDoc(<<"o", "l", "d">>))
          @@ (InContextDir(ConfigJson)
                  :> ConfigDoc((Comp("c", "md") :> TRUE) @@ (Comp("d", "txt") :> FALSE))) }

InitFiles ==
    /\ \E files \in ContextDisks : cf = [CfIdle EXCEPT !.files = files]
    /\ CoreFixed /\ ttl = TtlIdle /\ ctx = CtxIdle /\ pw = PwIdle /\ sv = SvIdle /\ st = StIdle
    /\ ss = SsIdle

NextFiles ==
    upload_file \/ delete_file \/ toggle_file \/ get_context_file_content
        \/ save_context_file_content

SpecFiles == InitFiles /\ [][NextFiles]_vars

\* uploads, toggles and deletes with the context assembly of a turn
NextEnabled == upload_file \/ delete_file \/ toggle_file \/ assemble_enabled_context

\* the disks of ContextDisks, and one where d.txt was put in the directory
\* without an upload, so that config.json has no entry for it
EnabledDisks ==
    ContextDisks \cup
    { (GlobalConfig :> TextDoc(<<"k", "e", "y">>))
          @@ (InContextDir(Comp("c", "md")) :> TextDoc(<<"o", "l", "d">>))
          @@ (InContextDir(Comp("d", "txt")) :> TextDoc(<<"o", "l", "d">>))
          @@ (InContextDir(ConfigJson) :> ConfigDoc((Comp("c", "md") :> TRUE))) }

InitEnabled ==
    /\ \E files \in EnabledDisks : cf = [CfIdle EXCEPT !.files = files]
    /\ CoreFixed /\ ttl = TtlIdle /\ ctx = CtxIdle /\ pw = PwIdle /\ sv = SvIdle /\ st = StIdle
    /\ ss = SsIdle

SpecEnabled == InitEnabled /\ [][NextEnabled]_vars

\* the file holds a complete document when the first save begins
InitSave ==
    /\ \E core \in SavedCores :
        sv = [SvIdle EXCEPT !.stage = "closed", !.bytes = JsonDump(SaveHistory(core).doc),
                            !.previous = SaveHistory(core).doc,
                            !.saving = SaveHistory(core).doc]
    /\ CoreFixed /\ ttl = TtlIdle /\ ctx = CtxIdle /\ pw = PwIdle /\ cf = CfIdle /\ st = StIdle
    /\ ss = SsIdle

NextSave == save_open \/ save_flush \/ save_close \/ read_session

SpecSave == InitSave /\ [][NextSave]_vars

\* session files as they are found on disk: a full document, a document
\* without title and persona, a legacy list, an unparsable file, no file
StoredFiles ==
    { DictFile([title |-> Cats, persona |-> "sage", messages |-> <<U0(Hi), A0(Ok)>>,
                pinned |-> TRUE]),
      DictFile([messages |-> <<U0(Hi)>>]),
      ListFile(<<U0(Hi), A0(Ok)>>),
      Corrupt,
      Missing }

GlobalConfigs ==
    { Missing, Corrupt,
      DictFile([MODEL |-> "m"]),
      DictFile([OPENROUTER_API_KEY |-> "k", MODEL |-> "m"]),
      DictFile([OPENROUTER_API_KEY |-> "k", MODEL |-> "m", DEFAULT_PERSONA |-> "sage"]) }

PersonaConfigs == {Missing, Corrupt, DictFile([model |-> "p"])}

ContextFileConfigs == {Missing, Corrupt, DictFile([files |-> <<>>])}

InitStore ==
    /\ \E f1 \in StoredFiles, f2 \in StoredFiles, config \in GlobalConfigs,
          persona_config \in PersonaConfigs, context_config \in ContextFileConfigs :
        st = [StIdle EXCEPT !.stage = "stored", !.sessions = <<f1, f2>>,
                            !.config = config, !.persona_config = persona_config,
                            !.context_config = context_config]
    /\ CoreFixed /\ ttl = TtlIdle /\ ctx = CtxIdle /\ pw = PwIdle /\ cf = CfIdle
    /\ sv = SvIdle
    /\ ss = SsIdle

NextStore ==
    read_global_config \/ list_sessions \/ load_session \/ read_context_config
        \/ read_persona_config \/ assemble_context \/ prepare_turn
        \/ update_memory \/ modify_memory

SpecStore == InitStore /\ [][NextStore]_vars

MaxSessions == 3

\* the session files of the sidebar: pinned and unpinned sessions of three
\* personas, a legacy list, no file
SidebarFiles ==
    { DictFile([title |-> Cats, persona |-> persona, pinned |-> pinned,
                messages |-> <<>>]) :
          persona \in {"assistant", "sage", "yeti"}, pinned \in BOOLEAN }
        \cup {ListFile(<<>>), Missing}

InitGroup ==
    /\ \E sessions \in [1..MaxSessions -> SidebarFiles] :
        st = [StIdle EXCEPT !.stage = "stored", !.sessions = sessions]
    /\ CoreFixed /\ ttl = TtlIdle /\ ctx = CtxIdle /\ pw = PwIdle /\ cf = CfIdle
    /\ sv = SvIdle /\ ss = SsIdle

NextGroup == list_sessions \/ group_sessions

SpecGroup == InitGroup /\ [][NextGroup]_vars

\* the configuration after setup, a long session without a persona key and
\* a short one with a persona, a persona with and without a model of its own
InitSettings ==
    /\ \E config \in { DictFile([OPENROUTER_API_KEY |-> "k", MODEL |-> "m"]),
                        DictFile([OPENROUTER_API_KEY |-> "k", MODEL |-> "m",
                                  DEFAULT_PERSONA |-> "assistant", MAX_HISTORY |-> 11]) },
          persona_config \in {Missing, DictFile([model |-> "p"]), DictFile([model |-> ""])} :
        st = [StIdle EXCEPT
                 !.stage = "stored",
                 !.sessions = << DictFile([title |-> Cats,
                                           messages |-> NumberedMessages(MaxStored)]),
                                 DictFile([title |-> Cats, persona |-> "assistant",
                                           messages |-> <<U0(Hi), A0(Ok)>>]) >>,
                 !.config = config, !.persona_config = persona_config]
    /\ CoreFixed /\ ttl = TtlIdle /\ ctx = CtxIdle /\ pw = PwIdle /\ cf = CfIdle
    /\ sv = SvIdle /\ ss = SsIdle

NextSettings ==
    settings_save_max_history \/ settings_save_default_persona
        \/ settings_save_provider_model \/ turn_settings

SpecSettings == InitSettings /\ [][NextSettings]_vars

\* an empty sessions directory
InitCreate ==
    /\ ss = [SsIdle EXCEPT !.stage = "empty"]
    /\ CoreFixed /\ ttl = TtlIdle /\ ctx = CtxIdle /\ pw = PwIdle /\ cf = CfIdle
    /\ sv = SvIdle /\ st = StIdle

NextCreate == start_chat \/ send_message_new_chat \/ tick

SpecCreate == InitCreate /\ [][NextCreate]_vars

-----------------------------------------------------------------------------
(* Properties *)

\* the title a reader of the session file gets
StoredTitle ==
    IF session_file.kind = "dict" THEN Get(session_file.doc, "title", NewChat)
    ELSE NewChat

\* the messages a reader of the session file gets
StoredMessageList ==
    IF session_file.kind = "dict" THEN Get(session_file.doc, "messages", <<>>)
    ELSE IF session_file.kind = "list" THEN session_file.items
    ELSE <<>>

\* an attempt that triggers a retry: the call raised, no choices, or nothing
\* left of the completion once <s>, </s> and whitespace are stripped
AttemptFailed(call) ==
    \/ call.resp.kind \in {"error", "timeout", "nochoices"}
    \/ /\ call.resp.kind = "text"
       /\ \A i \in 1..Len(Remove(Remove(call.resp.content, TokS), TokEndS)) :
              Remove(Remove(call.resp.content, TokS), TokEndS)[i] \in Whitespace

LoopOver == pc \in {"respond", "title", "done"}

ResponseIsError == StartsWith(chat.response, ErrPrefix)

\* C1: update_long_term_memory called with a non-empty message list on an LTM
\* file of more than 50 characters leaves the file exactly as it was when the
\* rewrite, after artifact stripping, is shorter than 10 characters.
C1_SafetyGuard ==
    ( /\ mem.op = "update"
      /\ mem.messages # <<>>
      /\ mem.pre.exists
      /\ Len(mem.pre.content) > 50
      /\ mem.resp.kind = "text"
      /\ Len(StripTokens(mem.resp.content)) < 10 )
    => ltm_file = mem.pre

C1_Witness ==
    /\ mem.op = "update"
    /\ mem.messages # <<>>
    /\ mem.pre.exists
    /\ Len(mem.pre.content) = 200
    /\ mem.resp.kind = "text"
    /\ Len(StripTokens(mem.resp.content)) = 5
    /\ ltm_file = mem.pre

\* C2 (as claimed): after a send in which every attempt failed, the last
\* message of the stored session has content starting with "ERROR:".
C2_ErrorRecorded ==
    ( /\ pc = "done"
      /\ Len(chat.calls) = max_retries
      /\ \A i \in 1..Len(chat.calls) : AttemptFailed(chat.calls[i]) )
    => /\ StoredMessageList # <<>>
       /\ StartsWith(StoredMessageList[Len(StoredMessageList)].content, ErrPrefix)

\* C3: one send makes at most 2 provider calls, exactly 2 when the first
\* attempt fails and exactly 1 when it returns a non-empty completion; the
\* delay of 2 comes before the second call and never before the first.
C3_RetryBound ==
    /\ Len(chat.calls) <= 2
    /\ \A i \in 1..Len(chat.calls) :
           chat.calls[i].delay = (IF i = 1 THEN 0 ELSE 2)
    /\ LoopOver =>
           Len(chat.calls) = (IF AttemptFailed(chat.calls[1]) THEN 2 ELSE 1)

C3_Witness ==
    /\ pc = "done"
    /\ Len(chat.calls) = 2
    /\ AttemptFailed(chat.calls[1])
    /\ ~AttemptFailed(chat.calls[2])
    /\ chat.calls[2].delay = 2

PayloadConversation ==
    {i \in 1..Len(pay.payload) : pay.payload[i].role # "system"}
PayloadSystem ==
    {i \in 1..Len(pay.payload) : pay.payload[i].role = "system"}

C5_ProviderFailureKeepsFile ==
    ( /\ mem.op = "update"
      /\ mem.called
      /\ mem.resp.kind \in {"error", "malformed"} )
    => (ltm_file = mem.pre /\ ~mem.raised)

C5_Witness ==
    /\ mem.op = "update"
    /\ mem.called
    /\ mem.resp.kind = "malformed"
    /\ mem.pre.exists
    /\ ltm_file = mem.pre
    /\ ~mem.raised

\* C6: modify_memory_with_command returns None and leaves the LTM file as it
\* was when no memory exists (file missing or empty), when the provider call
\* fails or when the cleaned rewrite is shorter than 10 characters; otherwise
\* it overwrites the file with the rewrite and returns the stored content.
C6_ModifyResult ==
    mem.op = "modify" =>
        IF \/ ReadLtm(mem.pre) = <<>>
           \/ mem.resp.kind # "text"
           \/ Len(StripTokens(mem.resp.content)) < 10
        THEN mem.ret = <<>> /\ ltm_file = mem.pre
        ELSE /\ ltm_file = File(StripTokens(mem.resp.content))
             /\ mem.ret = <<ltm_file.content>>

C6_Witness ==
    /\ mem.op = "modify"
    /\ mem.called
    /\ mem.resp.kind = "text"
    /\ Len(mem.resp.content) >= 10
    /\ Len(StripTokens(mem.resp.content)) < 10
    /\ mem.ret = <<>>
    /\ ltm_file = mem.pre

\* C7: after wipe the LTM file does not exist; a second wipe, on the missing
\* file, raises nothing and leaves the same state.
C7_WipeIdempotent ==
    mem.op = "wipe" =>
        /\ ~ltm_file.exists
        /\ ~mem.raised
        /\ mem.prev = "wipe" => ltm_file = mem.pre

C7_Witness ==
    /\ mem.op = "wipe"
    /\ mem.prev = "wipe"
    /\ ~mem.pre.exists
    /\ ~ltm_file.exists
    /\ ~mem.raised

\* C8: saving a session, loading the saved file and saving again yields the
\* title, persona and message list of the first save, which are the session's.
C8_RoundTrip ==
    rt.stage = "resaved" =>
        /\ rt.first.kind = "dict" /\ rt.file.kind = "dict"
        /\ rt.first.doc.title = rt.orig.title
        /\ rt.first.doc.persona = rt.orig.persona
        /\ rt.first.doc.messages = rt.orig.messages
        /\ rt.file.doc.title = rt.first.doc.title
        /\ rt.file.doc.persona = rt.first.doc.persona
        /\ rt.file.doc.messages = rt.first.doc.messages

C8_Witness ==
    /\ rt.stage = "resaved"
    /\ rt.orig.title = Malformed
    /\ rt.orig.persona = "sage"
    /\ Len(rt.orig.messages) = 2
    /\ rt.file = rt.first

\* C9 (as claimed): a title of "New Chat" at the start of a turn whose
\* response is not an error is different from "New Chat" after the turn.
C9_TitleLeavesPlaceholder ==
    (pc = "done" /\ chat.title_at_start = NewChat /\ ~ResponseIsError)
    => StoredTitle # NewChat

\* C10 (as claimed): a title containing '[' at the start of a turn whose
\* response is not an error does not contain '[' after the turn.
C10_TitleRepaired ==
    ( /\ pc = "done"
      /\ Contains(chat.title_at_start, <<"[">>)
      /\ ~ResponseIsError )
    => ~Contains(StoredTitle, <<"[">>)

\* the acceptance gate in the claim's words: 3 to 50 characters, no bracket,
\* angle, hash or newline, none of the substrings Prompt, INST, SYS
TitlePassesGate(t) ==
    /\ Len(t) >= 3 /\ Len(t) <= 50
    /\ \A i \in 1..Len(t) : t[i] \notin {"[", "]", "<", ">", "#", "\n"}
    /\ ~Contains(t, <<"P", "r", "o", "m", "p", "t">>)
    /\ ~Contains(t, <<"I", "N", "S", "T">>)
    /\ ~Contains(t, <<"S", "Y", "S">>)

\* the first 50 characters of the prompt, then "..." when it is longer
PromptTruncation(p) ==
    [i \in 1..(IF Len(p) < 50 THEN Len(p) ELSE 50) |-> p[i]]
        \o (IF Len(p) > 50 THEN <<".", ".", ".">> ELSE <<>>)

\* C11: for a non-empty user prompt generate_title raises nothing; it returns
\* the cleaned model title when that title passes the acceptance gate, and in
\* every other case (gate failed, call raised, response malformed) the first
\* 50 characters of the prompt followed by "..." exactly when the prompt is
\* longer than 50 characters.
C11_TitleGate ==
    (ttl.stage = "returned" /\ ttl.user_prompt # <<>>) =>
        /\ ~ttl.raised
        /\ IF /\ ttl.resp.kind = "text"
              /\ TitlePassesGate(clean_title(Strip(ttl.resp.content)))
           THEN ttl.ret = clean_title(Strip(ttl.resp.content))
           ELSE ttl.ret = PromptTruncation(ttl.user_prompt)

C11_Witness ==
    /\ ttl.stage = "returned"
    /\ Len(ttl.user_prompt) = 51
    /\ ttl.resp.kind = "text"
    /\ Contains(clean_title(Strip(ttl.resp.content)), <<"<">>)
    /\ ttl.ret = Rep("p", 50) \o <<".", ".", ".">>
    /\ ~ttl.raised

\* where a line first occurs in the assembled prompt; 0 when it does not
FirstIndex(line) ==
    IF \E i \in 1..Len(ctx.prompt) : ctx.prompt[i] = line
    THEN CHOOSE i \in 1..Len(ctx.prompt) :
             ctx.prompt[i] = line /\ \A j \in 1..(i - 1) : ctx.prompt[j] # line
    ELSE 0

PersonaMdFiles == {n \in ctx.personality.files : EndsWith(n, ExtMd)}
ContextEnabled ==
    \E n \in ctx.dir : ~(n \in DOMAIN ctx.config /\ ~ctx.config[n])

\* C12: in the assembled prompt every persona .md file has its banner, the
\* banners are in lexicographic order of the file names, all of them come
\* before the context-files banner (present when a context file is enabled),
\* which comes before the LTM banner (present when the LTM file exists).
C12_ContextOrder ==
    ctx.stage = "built" =>
        /\ \A n \in PersonaMdFiles : FirstIndex(PersonaBanner(n)) > 0
        /\ \A n1, n2 \in PersonaMdFiles :
               LexLess(n1, n2) => FirstIndex(PersonaBanner(n1)) < FirstIndex(PersonaBanner(n2))
        /\ (FirstIndex(ContextBanner) > 0) = ContextEnabled
        /\ (FirstIndex(LtmBanner) > 0) = ctx.ltm.exists
        /\ ContextEnabled =>
               \A n \in PersonaMdFiles :
                   FirstIndex(PersonaBanner(n)) < FirstIndex(ContextBanner)
        /\ ctx.ltm.exists =>
               /\ \A n \in PersonaMdFiles :
                      FirstIndex(PersonaBanner(n)) < FirstIndex(LtmBanner)
               /\ ContextEnabled => FirstIndex(ContextBanner) < FirstIndex(LtmBanner)

C12_Witness ==
    /\ ctx.stage = "built"
    /\ Cardinality(PersonaMdFiles) = 4
    /\ ContextEnabled
    /\ ctx.ltm.exists
    /\ FirstIndex(PersonaBanner(<<"B">> \o ExtMd)) = 1
    /\ FirstIndex(PersonaBanner(<<"a">> \o ExtMd)) < FirstIndex(PersonaBanner(<<"a", "b">> \o ExtMd))
    /\ FirstIndex(ContextBanner) < FirstIndex(LtmBanner)

SessionIds == DOMAIN pw.sessions

\* C13 (as claimed): after a successful rename of persona X to Y every session
\* that referenced X references Y, no session references X, and the default
\* persona is Y if it was X and unchanged otherwise.
C13_RenamePropagates ==
    (pw.last.op = "save" /\ pw.last.renamed) =>
        LET X == Resolve(Strip(pw.last.persona))
            Y == Strip(pw.last.new_name)
        IN  /\ \A i \in SessionIds :
                   ListedPersona(pw.last.pre.sessions[i]) = X
                       => ListedPersona(pw.sessions[i]) = Y
            /\ \A i \in SessionIds : ListedPersona(pw.sessions[i]) # X
            /\ pw.default = (IF pw.last.pre.default = <<X>> THEN <<Y>>
                             ELSE pw.last.pre.default)

\* C14 (as claimed): at least one persona exists after any sequence of create,
\* rename and delete requests, and a delete request made when only one
\* persona exists is rejected and removes nothing.
C14_PersonaExists ==
    /\ DOMAIN pw.dirs # {}
    /\ (pw.last.op = "delete" /\ Cardinality(DOMAIN pw.last.pre.dirs) = 1) =>
           (pw.last.status \in {400, 404} /\ pw.dirs = pw.last.pre.dirs)

\* a name with a character other than letters, digits and underscore
HasForbiddenChar(name) ==
    \E i \in 1..Len(name) :
        name[i] \notin {"a", "b", "e", "g", "i", "n", "s", "t", "y", "_"}

PersonaRequestRejected ==
    /\ pw.last.status = 400
    /\ pw.last.reason # ""
    /\ PersonaWorld = pw.last.pre

DeleteOfOnlyPersona ==
    /\ pw.last.op = "delete"
    /\ Cardinality(DOMAIN pw.last.pre.dirs) = 1
    /\ Resolve(Strip(pw.last.persona)) \in DOMAIN pw.last.pre.dirs

BadCreate ==
    /\ pw.last.op = "create"
    /\ \/ Strip(pw.last.persona) = <<>>
       \/ HasForbiddenChar(Strip(pw.last.persona))
       \/ Strip(pw.last.persona) \in DOMAIN pw.last.pre.dirs

\* C15 (as claimed): a create or rename with an empty name, a name with a
\* forbidden character or a name that already exists, and a delete of the only
\* persona, is rejected with a reason and changes nothing.
C15_RejectedMutatesNothing ==
    ( \/ BadCreate
      \/ /\ pw.last.op = "save"
         /\ \/ Strip(pw.last.new_name) = <<>>
            \/ HasForbiddenChar(Strip(pw.last.new_name))
            \/ Strip(pw.last.new_name) \in DOMAIN pw.last.pre.dirs
      \/ DeleteOfOnlyPersona )
    => PersonaRequestRejected

\* C15 (amended): a create with an empty, forbidden or existing name, a save
\* request with an empty persona name or asking for a rename (new name
\* non-empty and different from the current one) to a forbidden or existing
\* name, and a delete of the only persona, is rejected with status 400 and a
\* reason, and leaves the persona directories, the session files and the
\* default persona as they were.
C15_RejectedRenameMutatesNothing ==
    ( \/ BadCreate
      \/ /\ pw.last.op = "save"
         /\ \/ Strip(pw.last.persona) = <<>>
            \/ /\ Strip(pw.last.new_name) # <<>>
               /\ Strip(pw.last.new_name) # Strip(pw.last.persona)
               /\ \/ HasForbiddenChar(Strip(pw.last.new_name))
                  \/ Strip(pw.last.new_name) \in DOMAIN pw.last.pre.dirs
      \/ DeleteOfOnlyPersona )
    => PersonaRequestRejected

C15_Witness ==
    /\ pw.last.op = "save"
    /\ Strip(pw.last.persona) = Sage
    /\ Strip(pw.last.new_name) = Assistant
    /\ Assistant \in DOMAIN pw.last.pre.dirs
    /\ \E i \in SessionIds : ListedPersona(pw.sessions[i]) = Sage
    /\ PersonaRequestRejected

\* C16 (as claimed): every file a context-file request reads, writes or
\* removes lies directly inside the context-file directory and has a name
\* ending in .md or .txt, whatever filename the caller supplied.
C16_FilenameBoundary ==
    \A path \in cf.last.touched :
        path.dir = "context" /\ path.name.ext \in {"md", "txt"}

\* the value ChatCore.send_message returned, once it has returned
Returned == pc \in {"title", "done"}

LastCall == chat.calls[Len(chat.calls)]

ReturnedAssistantText ==
    /\ chat.response # <<>>
    /\ LastCall.resp.kind = "text"
    /\ chat.response = CleanCompletion(LastCall.resp.content)

ReturnedError ==
    /\ StartsWith(chat.response, ErrPrefix)
    /\ \/ LastCall.resp.kind # "text"
       \/ CleanCompletion(LastCall.resp.content) = <<>>

\* C17: whatever the provider does on each call (exception, timeout, missing
\* choices, empty completion, non-empty completion), a started send_message
\* returns, and what it returns is either the assistant text or a string
\* starting with "ERROR:"; no provider failure ends the turn any other way.
C17_SendMessageReturns ==
    /\ [](Returned => (ReturnedAssistantText \/ ReturnedError))
    /\ ((pc = "attempt") ~> Returned)

C17_Witness ==
    /\ pc = "title"
    /\ Len(chat.calls) = 2
    /\ chat.calls[1].resp.kind = "timeout"
    /\ chat.calls[2].resp.kind = "nochoices"
    /\ ReturnedError

\* the message list ChatCore loaded from the session file for this turn
LoadedMessages == LoadHistory(session_file, SessionPersona(session_file)).messages

\* the turn is between the first statement of send_message and its return
TurnPending == pc \in {"attempt", "respond"}

\* C18: while a turn is pending, before any provider call and between the
\* calls, the session's message list is the loaded list followed by the
\* user message when skip_user_save is off, and the loaded list alone when
\* it is on; no assistant message has been added to it.
C18_UserMessageFirst ==
    TurnPending =>
        /\ ~chat.skip_user_save =>
               /\ chat.messages # <<>>
               /\ chat.messages[Len(chat.messages)].role = "user"
               /\ chat.messages[Len(chat.messages)].content = chat.user_input
               /\ SubSeq(chat.messages, 1, Len(chat.messages) - 1) = LoadedMessages
        /\ chat.skip_user_save => chat.messages = LoadedMessages

C18_Witness ==
    /\ pc = "attempt"
    /\ Len(chat.calls) = 1
    /\ ~chat.skip_user_save
    /\ Len(LoadedMessages) >= 2
    /\ chat.messages = Append(LoadedMessages, Msg("user", chat.user_input, turns))

IsPrefix(a, b) == Len(a) <= Len(b) /\ SubSeq(b, 1, Len(a)) = a

\* the step of views.send_message that creates a new session file and makes
\* it the current session
CreatesSession == pc # "attempt" /\ pc' = "attempt" /\ session_file' # session_file

\* C19: every step on a session (a step of a turn, a title update, a rename,
\* a pin toggle, a draft save) leaves the stored message list as it was or
\* extends it: the list before the step is a prefix of the list after it,
\* role, content and timestamp of every stored message included.
C19_AppendOnly ==
    [][CreatesSession \/ IsPrefix(StoredMessageList, StoredMessageList')]_vars

C19_Witness ==
    /\ pc = "done"
    /\ session_file.kind = "dict"
    /\ Len(StoredMessageList) = 4
    /\ session_file.doc.title = Cats
    /\ Get(session_file.doc, "pinned", FALSE)
    /\ Get(session_file.doc, "draft", <<>>) = <<"n">>

\* C20 (as claimed): whenever a reader opens and parses the session file,
\* during a save or after it, it obtains a complete session document, the
\* one stored before the save or the one being saved, never an empty or
\* partially written text.
C20_NoPartialRead ==
    sv.read.kind # "none" =>
        /\ sv.read.kind = "doc"
        /\ sv.read.doc \in {sv.previous, sv.saving}

\* C21 (as claimed): no operation that reads a persisted JSON document
\* raises, whichever of the documents is unparsable.
C21_CorruptNeverFatal == ~st.last.raised

Listed == st.last.op = "list"

FilesInDirectory == {i \in 1..Len(st.sessions) : st.sessions[i].kind # "missing"}

\* C22: the listing holds exactly one entry per file of the sessions
\* directory; the entry of an unparsable file has the title "Error Loading",
\* and the entry of a file holding a JSON object carries the title, persona
\* and pinned value the object has.
C22_ListingSurvivesCorruptFile ==
    Listed =>
        LET entries == st.last.value
        IN  /\ Len(entries) = Cardinality(FilesInDirectory)
            /\ {entries[k].id : k \in 1..Len(entries)} = FilesInDirectory
            /\ \A k \in 1..Len(entries) :
                   LET file == st.sessions[entries[k].id]
                   IN  /\ file.kind = "corrupt" => entries[k].title = ErrorLoading
                       /\ file.kind = "dict" =>
                              \A key \in {"title", "persona", "pinned"} \cap DOMAIN file.doc :
                                  entries[k][key] = file.doc[key]

C22_Witness ==
    /\ Listed
    /\ Len(st.last.value) = 2
    /\ st.sessions[1].kind = "corrupt"
    /\ st.sessions[2].kind = "dict" /\ "pinned" \in DOMAIN st.sessions[2].doc
    /\ st.last.value[2].title = ErrorLoading
    /\ st.last.value[1].title = Cats

\* the session a view has loaded through ChatCore
Loaded == st.last.op = "load"

\* C23 (as claimed): loading a session whose file is unparsable does not
\* raise and returns a placeholder session labeled as an error.
C23_LoadLabelsError ==
    (Loaded /\ st.sessions[st.last.id].kind = "corrupt") =>
        /\ ~st.last.raised
        /\ st.last.value.title = ErrorLoading

\* a bare message list, or a JSON object without the key
Lacks(file, key) ==
    file.kind = "list" \/ (file.kind = "dict" /\ key \notin DOMAIN file.doc)

RawMessages(file) ==
    IF file.kind = "list" THEN file.items ELSE Get(file.doc, "messages", <<>>)

\* C24 (as claimed): a session file that is a bare list, or an object
\* without title or persona, is listed and loaded with the title "New Chat"
\* or "Old Session" and the persona "assistant", and is loaded with the
\* messages of the raw list (or none).
C24_LegacyDefaults ==
    /\ Listed =>
           \A k \in 1..Len(st.last.value) :
               LET file == st.sessions[st.last.value[k].id]
               IN  /\ Lacks(file, "title") => st.last.value[k].title \in {NewChat, OldSession}
                   /\ Lacks(file, "persona") => st.last.value[k].persona = "assistant"
    /\ Loaded =>
           LET file == st.sessions[st.last.id]
           IN  /\ Lacks(file, "title") => st.last.value.title \in {NewChat, OldSession}
               /\ Lacks(file, "persona") => st.last.value.persona = "assistant"
               /\ file.kind \in {"list", "dict"} => st.last.value.messages = RawMessages(file)

\* the API key or the model is absent from config.json
LacksRequiredConfig ==
    \/ Get(load_config(st.config), "OPENROUTER_API_KEY", "") = ""
    \/ Get(load_config(st.config), "MODEL", "") = ""

\* C25 (as claimed): with the API key or the model absent, a turn, a memory
\* update and a memory modification make no provider call.
C25_NoCallWithoutConfig ==
    (st.last.op \in {"send_message", "update_memory", "modify_memory"}
        /\ LacksRequiredConfig) => ~st.last.called

\* C26 (as claimed): the id of a created session differs from the id of
\* every session that exists at the time, so no existing file is written
\* over, and the created session has the title "New Chat".
C26_FreshSessionId ==
    ss.last.op # "none" =>
        /\ ss.last.id \notin DOMAIN ss.last.pre
        /\ \A id \in DOMAIN ss.last.pre : ss.sessions[id] = ss.last.pre[id]
        /\ ss.sessions[ss.last.id].title = NewChat

HasStoredPersona(file) == file.kind = "dict" /\ "persona" \in DOMAIN file.doc

\* the rename of the last request was propagated to the session file
RenamePropagated(before, after) ==
    /\ pw.last.op = "save" /\ pw.last.renamed
    /\ before = Strip(pw.last.persona)
    /\ after = Strip(pw.last.new_name)

\* the last request deleted the persona of the session file, which now
\* carries the default persona
ReboundByDelete(before, after) ==
    /\ pw.last.op = "delete" /\ pw.last.status = 200
    /\ before = Strip(pw.last.persona)
    /\ after = (IF pw.default = <<>> THEN <<>> ELSE pw.default[1])

PersonaKept(changes(_, _)) ==
    \A i \in DOMAIN pw.last.pre.sessions :
        HasStoredPersona(pw.last.pre.sessions[i]) =>
            /\ HasStoredPersona(pw.sessions[i])
            /\ \/ pw.sessions[i].doc.persona = pw.last.pre.sessions[i].doc.persona
               \/ changes(pw.last.pre.sessions[i].doc.persona, pw.sessions[i].doc.persona)

\* C27 (as claimed): no request other than a propagated persona rename
\* changes the persona a session file stores.
C27_PersonaImmutable == PersonaKept(RenamePropagated)

RenamedOrRebound(before, after) ==
    RenamePropagated(before, after) \/ ReboundByDelete(before, after)

\* C27 (amended): a turn, a title update, a pin toggle, a chat rename, a
\* draft save and a persona creation leave the persona a session file
\* stores unchanged; it changes only by a propagated persona rename and by
\* the deletion of that persona, which rewrites it to the default persona.
C27_PersonaChangesOnlyByRenameOrDelete == PersonaKept(RenamedOrRebound)

C27_Witness ==
    /\ pw.last.op = "delete" /\ pw.last.status = 200
    /\ \E i \in DOMAIN pw.sessions :
           /\ HasStoredPersona(pw.last.pre.sessions[i])
           /\ pw.last.pre.sessions[i].doc.persona = Sage
           /\ pw.sessions[i].doc.persona = Assistant
           /\ Len(pw.sessions[i].doc.messages) = 4

Grouped == st.last.op = "group"

\* the entries of a sequence, as a set
Range(seq) == {seq[k] : k \in 1..Len(seq)}

NewestFirst(sessions) ==
    \A a \in 1..Len(sessions), b \in 1..Len(sessions) :
        a < b => sessions[a].id > sessions[b].id

\* C28: every pinned session is in the pinned list and in no bucket, every
\* unpinned session is in the bucket of its persona and in no other, the
\* sessions of the pinned list and of each bucket are newest first as in the
\* input, and the buckets come in descending order of the id of their most
\* recent session.
C28_GroupingByPersona ==
    Grouped =>
        LET input == get_sessions_with_titles(st.sessions)
            pinned == st.last.value.pinned_sessions
            groups == st.last.value.ordered_groups
        IN  /\ Range(pinned) = {e \in Range(input) : e.pinned}
            /\ NewestFirst(pinned)
            /\ \A e \in Range(input) :
                   IF e.pinned
                   THEN \A k \in 1..Len(groups) : e \notin Range(groups[k].sessions)
                   ELSE \A k \in 1..Len(groups) :
                            e \in Range(groups[k].sessions) <=> groups[k].persona = e.persona
            /\ \A e \in Range(input) :
                   ~e.pinned => \E k \in 1..Len(groups) : groups[k].persona = e.persona
            /\ \A k \in 1..Len(groups) :
                   /\ groups[k].sessions # <<>>
                   /\ NewestFirst(groups[k].sessions)
                   /\ Range(groups[k].sessions) \subseteq Range(input)
            /\ \A k \in 1..Len(groups), l \in 1..Len(groups) :
                   k < l => /\ groups[k].persona # groups[l].persona
                            /\ groups[k].sessions[1].id > groups[l].sessions[1].id

C28_Witness ==
    /\ Grouped
    /\ Len(st.last.value.pinned_sessions) = 1
    /\ Len(st.last.value.ordered_groups) = 2
    /\ st.last.value.ordered_groups[1].persona = "yeti"
    /\ st.last.value.ordered_groups[2].persona = "assistant"

\* the context files on disk: the entries of the directory named *.md, *.txt
ContextFilesOnDisk(files) ==
    {n \in ListDir(files) : n.ext \in {"md", "txt"}}

\* the "files" object of config.json as stored, empty when there is none
StoredEntries(files) ==
    IF InContextDir(ConfigJson) \in DOMAIN files
    THEN files[InContextDir(ConfigJson)].files ELSE <<>>

CountsAsEnabled(files, name) ==
    name \notin DOMAIN StoredEntries(files) \/ StoredEntries(files)[name]

\* C29: after uploads, toggles and deletes the assembled context holds the
\* text of exactly the context files that are on disk and enabled, a file
\* without a config entry counting as enabled; a toggle removes no file from
\* the disk and changes no file's text.
C29_DisabledExcludedRetained ==
    /\ cf.last.op = "assemble" =>
           /\ cf.last.status = "ok"
           /\ {part.name : part \in Range(cf.last.context)}
                  = {n \in ContextFilesOnDisk(cf.files) : CountsAsEnabled(cf.files, n)}
           /\ \A part \in Range(cf.last.context) :
                  part.text = cf.files[InContextDir(part.name)].text
           /\ Len(cf.last.context) = Cardinality(Range(cf.last.context))
    /\ cf.last.op = "toggle" =>
           \A n \in ContextFilesOnDisk(cf.last.pre) :
               /\ InContextDir(n) \in DOMAIN cf.files
               /\ cf.files[InContextDir(n)] = cf.last.pre[InContextDir(n)]

C29_Witness ==
    /\ cf.last.op = "assemble"
    /\ InContextDir(Comp("c", "md")) \in DOMAIN cf.files
    /\ ~CountsAsEnabled(cf.files, Comp("c", "md"))
    /\ Comp("d", "txt") \notin DOMAIN StoredEntries(cf.files)
    /\ {part.name : part \in Range(cf.last.context)} = {Comp("d", "txt")}

\* the entries of config["files"] as get_config reads them from a disk
ConfigEntries(files) == get_config(files).files

DeletedName == Basename(cf.last.filename)

\* C30: when delete_file returns True the file is off the disk and the
\* config has no entry for it, the other context files, and the other
\* entries when the name is a context file's, being as they were; when the file does not exist it returns False and the directory
\* and the config are as they were.
C30_DeleteRemovesFileAndEntry ==
    cf.last.op = "delete" =>
        /\ cf.last.status = "ok" =>
               /\ InContextDir(DeletedName) \in DOMAIN cf.last.pre
               /\ InContextDir(DeletedName) \notin DOMAIN cf.files
               /\ get_config(cf.files).ok
               /\ DeletedName \notin DOMAIN ConfigEntries(cf.files)
               /\ \A path \in DOMAIN cf.last.pre
                          \ {InContextDir(DeletedName), InContextDir(ConfigJson)} :
                      path \in DOMAIN cf.files /\ cf.files[path] = cf.last.pre[path]
               /\ DeletedName # ConfigJson =>
                      \A n \in DOMAIN ConfigEntries(cf.last.pre) \ {DeletedName} :
                          /\ n \in DOMAIN ConfigEntries(cf.files)
                          /\ ConfigEntries(cf.files)[n] = ConfigEntries(cf.last.pre)[n]
        /\ cf.last.status = "not found" =>
               /\ InContextDir(DeletedName) \notin DOMAIN cf.last.pre
               /\ cf.files = cf.last.pre

C30_Witness ==
    /\ cf.last.op = "delete"
    /\ cf.last.status = "ok"
    /\ get_config(cf.last.pre).ok
    /\ DeletedName \in DOMAIN ConfigEntries(cf.last.pre)
    /\ DOMAIN ConfigEntries(cf.files) # {}

\* the step in which ChatCore.send_message, having a completion, appends
\* the assistant message and saves
SavesCompletion == pc = "respond" /\ pc' = "title" /\ chat.assistant_message # <<>>

\* the user messages of a list with the given content
UserCopies(messages, content) ==
    {i \in 1..Len(messages) :
        messages[i].role = "user" /\ messages[i].content = content}

\* C31: the save of a successful send stores the list loaded at the start of
\* the turn, then the user message when skip_user_save is off and nothing
\* when it is on, then exactly one assistant message; the rest of the
\* request leaves that list as stored.
C31_SuccessfulTurnPersists ==
    [][ /\ SavesCompletion =>
             /\ StoredMessageList'
                   = (IF chat.skip_user_save THEN LoadedMessages
                      ELSE Append(LoadedMessages, Msg("user", chat.user_input, turns)))
                         \o <<Msg("assistant", chat.assistant_message, turns)>>
             /\ chat.assistant_message = chat'.response
        /\ (pc = "title" /\ ~ResponseIsError) =>
             StoredMessageList' = StoredMessageList ]_vars

\* a session as start_chat left it, then a send with skip_user_save on
C31_Witness ==
    /\ pc = "done"
    /\ ~ResponseIsError
    /\ chat.skip_user_save
    /\ chat.user_input = Hi
    /\ Len(StoredMessageList) = 2
    /\ StoredMessageList[1] = U0(Hi)
    /\ StoredMessageList[2].role = "assistant"
    /\ Cardinality(UserCopies(StoredMessageList, Hi)) = 1

\* the lines of a text, each without its terminating newline
RECURSIVE SplitLines(_, _)
SplitLines(text, line) ==
    IF text = <<>> THEN (IF line = <<>> THEN <<>> ELSE <<line>>)
    ELSE IF Head(text) = "\n" THEN <<line>> \o SplitLines(Tail(text), <<>>)
    ELSE SplitLines(Tail(text), Append(line, Head(text)))

IsUserMessage(msg) == msg.role = "user"

UserMessagesOf(messages) == SelectSeq(messages, IsUserMessage)

\* C32: the conversation text update_long_term_memory sends has one line
\* "User: <content>" per user-role message of its input, in input order, and
\* no content of an assistant-role message; with an empty input no provider
\* call is made and the LTM file is as it was.
C32_MemoryCorpusUserOnly ==
    mem.op = "update" =>
        /\ mem.called =>
               /\ SplitLines(mem.conversation, <<>>)
                      = [i \in 1..Len(UserMessagesOf(mem.messages)) |->
                            UserLabel \o UserMessagesOf(mem.messages)[i].content]
               /\ \A i \in 1..Len(mem.messages) :
                      mem.messages[i].role = "assistant"
                          => ~Contains(mem.conversation, mem.messages[i].content)
        /\ mem.messages = <<>> => ~mem.called /\ ltm_file = mem.pre

C32_Witness ==
    /\ mem.op = "update"
    /\ mem.called
    /\ Len(mem.messages) = 3
    /\ mem.messages[2].role = "assistant"
    /\ Len(SplitLines(mem.conversation, <<>>)) = 2
    /\ SplitLines(mem.conversation, <<>>)[2] = UserLabel \o <<"y", "o">>

\* the title model was called in this turn
TitleModelCalled == chat.title_resp # NoResponse

\* C33: in one turn the title model is called at most once, and only when
\* the turn's response does not start with "ERROR:" and the title the turn
\* found is "New Chat" or has artifacts; after a turn whose response is an
\* error the stored title is the title before the turn.
C33_TitleGating ==
    /\ Len(chat.generated) <= 1
    /\ TitleModelCalled <=> chat.generated # <<>>
    /\ TitleModelCalled =>
           /\ pc = "done"
           /\ ~ResponseIsError
           /\ chat.title_at_start = NewChat \/ title_has_artifacts(chat.title_at_start)
    /\ (pc = "done" /\ ResponseIsError) =>
           /\ ~TitleModelCalled
           /\ StoredTitle = chat.title_at_start

C33_Witness ==
    /\ pc = "done"
    /\ turns = 2
    /\ ResponseIsError
    /\ chat.title_at_start = Cats
    /\ StoredTitle = Cats
    /\ Len(StoredMessageList) = 2

WrittenSetting(key) == key \in DOMAIN st.written

\* the persona has a model of its own
PersonaModel == Get(load_config(st.persona_config), "model", "")

\* C34: the turn after a settings write uses the written values: the saved
\* history limit bounds the payload window, the saved model is the model of
\* a persona without a model of its own, the saved default persona is the
\* persona of a session that names none and of a new chat posted without
\* one.
C34_SettingsTakeEffect ==
    (st.last.op = "turn" /\ st.stage = "read") =>
        /\ ~st.last.raised /\ st.last.called
        /\ WrittenSetting("MAX_HISTORY") =>
               /\ st.last.value.max_history = st.written["MAX_HISTORY"]
               /\ Len(st.last.value.payload)
                      = Min(st.last.value.stored, 2 * st.written["MAX_HISTORY"])
        /\ (WrittenSetting("MODEL") /\ PersonaModel = "") =>
               st.last.value.model = st.written["MODEL"]
        /\ (WrittenSetting("DEFAULT_PERSONA")
               /\ IF st.last.value.is_new_chat THEN st.last.value.posted_persona = <<>>
                  ELSE Lacks(st.sessions[st.last.id], "persona")) =>
               st.last.value.persona = st.written["DEFAULT_PERSONA"]

C34_Witness ==
    /\ st.last.op = "turn"
    /\ ~st.last.value.is_new_chat
    /\ st.last.id = 1
    /\ WrittenSetting("MAX_HISTORY") /\ st.written["MAX_HISTORY"] = 10
    /\ Len(st.last.value.payload) = 20
    /\ WrittenSetting("MODEL") /\ st.last.value.model = "m2"
    /\ WrittenSetting("DEFAULT_PERSONA") /\ st.last.value.persona = "sage"

\* data.get("pinned", False) of the session listing
StoredPinned ==
    session_file.kind = "dict" /\ Get(session_file.doc, "pinned", FALSE)

\* C35 (as claimed): no step of a turn on an existing session changes the
\* pinned value its file holds, so a session pinned before a successful
\* turn is pinned after it.
C35_TurnKeepsPinned ==
    [][CreatesSession \/ StoredPinned' = StoredPinned]_vars

\* the send has returned and every pass of its loop failed
EveryAttemptFailed ==
    /\ pc \in {"title", "done"}
    /\ Len(chat.calls) = max_retries
    /\ \A i \in 1..Len(chat.calls) : AttemptFailed(chat.calls[i])

\* C36 (as claimed): after a send with skip_user_save off in which every
\* attempt failed, the stored session holds the user message of that turn.
C36_UserMessageSurvivesFailure ==
    (EveryAttemptFailed /\ ~chat.skip_user_save) =>
        \E i \in 1..Len(StoredMessageList) :
            StoredMessageList[i] = Msg("user", chat.user_input, turns)

\* the stored document has the key with the value
Holds(key, value) ==
    /\ session_file.kind = "dict"
    /\ key \in DOMAIN session_file.doc
    /\ session_file.doc[key] = value

\* C37 (as claimed): when a rename, a pin toggle or a draft save completed
\* while a turn was between its load and its save, then once the turn has
\* saved its completion the stored session holds the value that request
\* wrote and the messages of the turn.
C37_NoLostUpdate ==
    (pc \in {"title", "done"} /\ ~ResponseIsError /\ chat.in_flight # <<>>) =>
        /\ \A i \in 1..Len(chat.in_flight) :
               Holds(chat.in_flight[i].key, chat.in_flight[i].value)
        /\ StoredMessageList = chat.messages

DeletedPersona == Resolve(Strip(pw.last.persona))

\* the session files json.load parses
ReadableSessions == {i \in SessionIds : pw.sessions[i].kind \in {"dict", "list"}}

\* C38 (as claimed): after a successful delete of persona P no readable
\* session is listed under P, every readable session that was listed under
\* P is listed under the current default persona, and the default persona
\* names a persona directory that exists.
C38_NoDanglingReference ==
    (pw.last.op = "delete" /\ pw.last.status = 200) =>
        /\ \A i \in ReadableSessions : ListedPersona(pw.sessions[i]) # DeletedPersona
        /\ \A i \in ReadableSessions :
               ListedPersona(pw.last.pre.sessions[i]) = DeletedPersona
                   => pw.default = <<ListedPersona(pw.sessions[i])>>
        /\ pw.default # <<>>
        /\ pw.default[1] \in DOMAIN pw.dirs

\* C39 (as claimed): update_memory reports "Memory Updated" only when this
\* call overwrote the LTM file with the model's rewrite, and reports an
\* error status when the provider call failed.
C39_UpdateStatusTruthful ==
    mem.op = "update_memory" =>
        /\ mem.ret = <<MemoryUpdated>> =>
               /\ mem.resp.kind = "text"
               /\ ltm_file = File(StripTokens(mem.resp.content))
        /\ (mem.called /\ mem.resp.kind # "text") => mem.ret # <<MemoryUpdated>>

\* C40 (as claimed): after any sequence of uploads, deletes and toggles
\* every filename with an entry in the context-file config names a file of
\* the context directory.
C40_ConfigNamesExistingFiles ==
    \A n \in DOMAIN ConfigEntries(cf.files) : InContextDir(n) \in DOMAIN cf.files

====
